---------------------------- MODULE Spec2Model ----------------------------
(***************************************************************************)
(* Model of the evergreen dependency scanner of labs/lab-10-evergreen-     *)
(* pipeline (evergreen_scanner.py): the Dockerfile parser, the semantic-   *)
(* version classifier and comparator, the Docker Hub tag selection and the *)
(* per-project scan loop.                                                  *)
(*                                                                         *)
(* Python strings are TLA+ strings; a character is a string of length 1.   *)
(* Optional[str] is a sequence: None is << >> and a value s is << s >>.    *)
(***************************************************************************)
EXTENDS Integers, Sequences, FiniteSets, TLC

VARIABLES
    tag,                \* argument of DockerHubAPI._is_semantic_version
    semantic,           \* its result, << >> before the call
    tags,               \* the tag names of a Docker Hub response / argument list
    latest,             \* result of _get_latest_semantic_version, << >> before
    selected,           \* get_latest_tag: [called, kind of exchange, raised, value]
    content,            \* argument of DockerfileParser.parse_dockerfile
    from_line,          \* argument of DockerfileParser._parse_from_statement
    images,             \* result of parse_dockerfile
    image,              \* result of _parse_from_statement
    parsed,             \* which of the two parser entry points has returned
    pc,                 \* position of scan_dockerfiles
    repo_files,         \* paths of the blobs of the repository tree
    dockerfiles,        \* scan_dockerfiles: the paths _filter_dockerfiles kept
    file_no,            \* scan_dockerfiles: position in dockerfiles
    file_images,        \* _scan_dockerfile: images parsed from the current file
    idx,                \* _scan_dockerfile: position in file_images (i + 1)
    responses,          \* Docker Hub exchange for each image of the current file
    file_candidates,    \* _scan_dockerfile: update_candidates
    update_candidates,  \* scan_dockerfiles: update_candidates
    file_error,         \* what the handler of _scan_dockerfile caught, if anything
    scan_error,         \* whether the handler of scan_dockerfiles caught something
    main_content,       \* lab-10: the Dockerfile on branch main of the project
    branch_content,     \* lab-10: the Dockerfile saved on the update branch, if any
    candidate,          \* lab-10: the UpdateCandidate handed to _update_dockerfile
    pushes,             \* lab-10: one record per call of _update_dockerfile
    dockerfile,         \* lab-11: content of config.dockerfile_path, << >> if missing
    updates,            \* lab-11: one record per call of update_image_version
    job_input,          \* lab-11 jobs: configuration, Docker Hub exchange, file system
    pipeline_env,       \* lab-11 jobs: UPDATES_NEEDED / CHANGES_MADE passed between jobs
    exits,              \* lab-11 jobs: one record per script that has exited
    config_file,        \* ConfigManager: the file at config_path
    environ,            \* ConfigManager: os.environ, "" for a variable that is not set
    config,             \* ConfigManager.config, << >> before construction
    config_error,       \* what the constructor of ConfigManager raised, if anything
    project_candidates, \* manager: the candidates scan_dockerfiles returns for the project
    remote_branches,    \* manager: names of the update branches of the remote project
    commits,            \* manager: branches on which _update_dockerfile saved the file
    merge_requests,     \* manager: the merge requests opened, in order
    clock,              \* manager: int(time.time())
    started,            \* manager: number of scans started
    scans,              \* manager: per thread, the position and locals of run_scheduled_scan
    manual_ids,         \* manager: the scan ids trigger_manual_scan returned
    last_scan_result,   \* manager: EnhancedEvergreenScannerManager.last_scan_result
    scan_history,       \* manager: EnhancedEvergreenScannerManager.scan_history
    recorded,           \* manager: every call of record_scan_result, in order
    ci_variables,       \* pipeline: os.environ of the jobs of one pipeline
    artifacts,          \* pipeline: updates.env, changes.env and branch.env
    git_commands,       \* pipeline: the git operations setup_and_update has run
    created_mrs,        \* pipeline: source branches of the merge requests created
    stages              \* pipeline: the jobs that have run, with their exit status

classifyVars == <<tag, semantic>>
selectVars == <<tags, latest, selected>>
parseVars == <<content, from_line, images, image, parsed>>
scanVars == <<pc, repo_files, dockerfiles, file_no, file_images, idx, responses,
              file_candidates, update_candidates, file_error, scan_error>>
rewriteVars == <<main_content, branch_content, candidate, pushes, dockerfile, updates>>
jobVars == <<job_input, pipeline_env, exits>>
configVars == <<config_file, environ, config, config_error>>
managerVars == <<project_candidates, remote_branches, commits, merge_requests, clock,
                 started, scans,
                 manual_ids, last_scan_result, scan_history, recorded>>
pipelineVars == <<ci_variables, artifacts, git_commands, created_mrs, stages>>
labVars == <<rewriteVars, jobVars, configVars, managerVars, pipelineVars>>
vars == <<classifyVars, selectVars, parseVars, scanVars, labVars>>

-----------------------------------------------------------------------------
(* Bounds of the model *)

MaxTagLen == 5
MaxTags == 3
MaxLines == 3
MaxSegments == 3
MaxFiles == 2
MaxApplications == 2
MaxStages == 2
MaxScans == 2
MaxTicks == 1

-----------------------------------------------------------------------------
(* Optional values *)

None == << >>
Some(v) == << v >>

-----------------------------------------------------------------------------
(* Python str primitives used by the scanner *)

Ch(s, i) == SubSeq(s, i, i)

Min(S) == CHOOSE m \in S : \A n \in S : m <= n
Max(S) == CHOOSE m \in S : \A n \in S : m >= n

\* s.startswith(p)
StartsWith(s, p) == Len(s) >= Len(p) /\ SubSeq(s, 1, Len(p)) = p

\* characters str.strip() removes
Whitespace == {" ", "\t", "\n", "\r", "\f"}

RECURSIVE LStrip(_)
LStrip(s) ==
    IF Len(s) > 0 /\ Ch(s, 1) \in Whitespace THEN LStrip(SubSeq(s, 2, Len(s))) ELSE s

RECURSIVE RStrip(_)
RStrip(s) ==
    IF Len(s) > 0 /\ Ch(s, Len(s)) \in Whitespace
    THEN RStrip(SubSeq(s, 1, Len(s) - 1)) ELSE s

\* s.strip()
Strip(s) == LStrip(RStrip(s))

\* s.find(sep) + 1: index of the first occurrence of sep in s, 0 when absent
Find(s, sep) ==
    LET hits == {i \in 1..(Len(s) - Len(sep) + 1) : SubSeq(s, i, i + Len(sep) - 1) = sep}
    IN  IF hits = {} THEN 0 ELSE Min(hits)

\* s.rfind(sep) + 1
RFind(s, sep) ==
    LET hits == {i \in 1..(Len(s) - Len(sep) + 1) : SubSeq(s, i, i + Len(sep) - 1) = sep}
    IN  IF hits = {} THEN 0 ELSE Max(hits)

\* sub in s
Contains(s, sub) == Find(s, sub) # 0

\* s.split(sep): every piece between occurrences of sep, left to right
RECURSIVE Split(_, _)
Split(s, sep) ==
    LET i == Find(s, sep)
    IN  IF i = 0 THEN << s >>
        ELSE << SubSeq(s, 1, i - 1) >> \o Split(SubSeq(s, i + Len(sep), Len(s)), sep)

\* s.rsplit(sep, 1): split once, at the last occurrence of sep
RSplit1(s, sep) ==
    LET i == RFind(s, sep)
    IN  IF i = 0 THEN << s >>
        ELSE << SubSeq(s, 1, i - 1), SubSeq(s, i + Len(sep), Len(s)) >>

\* s.count(c)
Count(s, c) == Len(Split(s, c)) - 1

\* sep.join(parts)
RECURSIVE Join(_, _)
Join(parts, sep) ==
    IF Len(parts) = 0 THEN ""
    ELSE IF Len(parts) = 1 THEN parts[1]
    ELSE parts[1] \o sep \o Join(Tail(parts), sep)

UpperLetters == "ABCDEFGHIJKLMNOPQRSTUVWXYZ"
LowerLetters == "abcdefghijklmnopqrstuvwxyz"

UpperCh(c) ==
    LET i == Find(LowerLetters, c) IN IF i = 0 THEN c ELSE Ch(UpperLetters, i)
LowerCh(c) ==
    LET i == Find(UpperLetters, c) IN IF i = 0 THEN c ELSE Ch(LowerLetters, i)

\* s.upper()
RECURSIVE Upper(_)
Upper(s) == IF Len(s) = 0 THEN "" ELSE UpperCh(Ch(s, 1)) \o Upper(SubSeq(s, 2, Len(s)))

\* s.lower()
RECURSIVE Lower(_)
Lower(s) == IF Len(s) = 0 THEN "" ELSE LowerCh(Ch(s, 1)) \o Lower(SubSeq(s, 2, Len(s)))

-----------------------------------------------------------------------------
(* Regular-expression classes of the version patterns *)

\* \d
Digits == {"0", "1", "2", "3", "4", "5", "6", "7", "8", "9"}

Letters == {Ch(UpperLetters, i) : i \in 1..Len(UpperLetters)}
               \cup {Ch(LowerLetters, i) : i \in 1..Len(LowerLetters)}

\* [\w\.-]
SuffixChars == Letters \cup Digits \cup {"_", ".", "-"}

\* index just past the longest run of characters of class cls that starts at i
RECURSIVE SpanEnd(_, _, _)
SpanEnd(s, i, cls) ==
    IF i <= Len(s) /\ Ch(s, i) \in cls THEN SpanEnd(s, i + 1, cls) ELSE i

\* int(digits)
RECURSIVE ToInt(_)
ToInt(d) ==
    IF Len(d) = 0 THEN 0
    ELSE 10 * ToInt(SubSeq(d, 1, Len(d) - 1))
             + (CHOOSE n \in 0..9 : Ch("0123456789", n + 1) = Ch(d, Len(d)))

\* re.match(r'^v?(\d+)\.(\d+)(?:\.(\d+))?', tag): the groups and the index just
\* past the match.  Every quantifier is greedy and no shorter choice can
\* succeed where the longest fails, so the longest runs decide the match.
MatchVersion(s) ==
    LET p0 == IF StartsWith(s, "v") THEN 2 ELSE 1
        p1 == SpanEnd(s, p0, Digits)
        ok1 == p1 > p0 /\ p1 <= Len(s) /\ Ch(s, p1) = "."
        p2 == SpanEnd(s, p1 + 1, Digits)
        ok == ok1 /\ p2 > p1 + 1
        p3 == SpanEnd(s, p2 + 1, Digits)
        hasPatch == ok /\ p2 <= Len(s) /\ Ch(s, p2) = "." /\ p3 > p2 + 1
    IN  IF ~ok THEN [matched |-> FALSE]
        ELSE [matched |-> TRUE,
              major |-> SubSeq(s, p0, p1 - 1),
              minor |-> SubSeq(s, p1 + 1, p2 - 1),
              patch |-> IF hasPatch THEN Some(SubSeq(s, p2 + 1, p3 - 1)) ELSE None,
              end |-> IF hasPatch THEN p3 ELSE p2]

\* DockerHubAPI._is_semantic_version:
\* bool(re.match(r'^v?(\d+)\.(\d+)(?:\.(\d+))?(?:-[\w\.-]+)?$', tag)).
\* Python's $ matches at the end of the string and also just before a newline
\* that is the last character of the string.
is_semantic_version(s) ==
    LET m == MatchVersion(s)
        q == SpanEnd(s, m.end + 1, SuffixChars)
        hasSuffix == m.end <= Len(s) /\ Ch(s, m.end) = "-" /\ q > m.end + 1
        e == IF hasSuffix THEN q ELSE m.end
    IN  /\ m.matched
        /\ \/ e = Len(s) + 1
           \/ e = Len(s) /\ Ch(s, e) = "\n"

-----------------------------------------------------------------------------
(* Version comparator and tag selection (class DockerHubAPI) *)

\* Python's ordering of two (major, minor, patch) tuples: a < b
TupleLess(a, b) ==
    \/ a[1] < b[1]
    \/ a[1] = b[1] /\ a[2] < b[2]
    \/ a[1] = b[1] /\ a[2] = b[2] /\ a[3] < b[3]

\* version_key of _get_latest_semantic_version
version_key(s) ==
    LET m == MatchVersion(s)
    IN  IF m.matched
        THEN << ToInt(m.major), ToInt(m.minor),
                IF m.patch = None THEN 0 ELSE ToInt(m.patch[1]) >>
        ELSE << 0, 0, 0 >>

\* max(seq, key=version_key) from position i on, best being the maximum so
\* far: a later element replaces it only when its key is strictly greater
RECURSIVE MaxFrom(_, _, _)
MaxFrom(seq, i, best) ==
    IF i > Len(seq) THEN best
    ELSE MaxFrom(seq, i + 1,
                 IF TupleLess(version_key(best), version_key(seq[i]))
                 THEN seq[i] ELSE best)

\* position of a character in the collating order of the characters of tags
CharOrder == "-.0123456789" \o UpperLetters \o "_" \o LowerLetters
Ord(c) == Find(CharOrder, c)

\* Python's ordering of two strings: a < b
RECURSIVE StrLess(_, _)
StrLess(a, b) ==
    IF Len(b) = 0 THEN FALSE
    ELSE IF Len(a) = 0 THEN TRUE
    ELSE IF Ch(a, 1) # Ch(b, 1) THEN Ord(Ch(a, 1)) < Ord(Ch(b, 1))
    ELSE StrLess(SubSeq(a, 2, Len(a)), SubSeq(b, 2, Len(b)))

RECURSIVE StrMaxFrom(_, _, _)
StrMaxFrom(seq, i, best) ==
    IF i > Len(seq) THEN best
    ELSE StrMaxFrom(seq, i + 1, IF StrLess(best, seq[i]) THEN seq[i] ELSE best)

\* the comparator without its key: max(tags), which compares tags as strings
get_latest_semantic_version_as_strings(seq) == StrMaxFrom(seq, 2, seq[1])

\* DockerHubAPI._get_latest_semantic_version: max(tags, key=version_key), for a
\* non-empty list (max raises ValueError on an empty one)
get_latest_semantic_version(seq) == MaxFrom(seq, 2, seq[1])

\* What the HTTP exchange of get_latest_tag produces: a tag listing, or one of
\* the failures (session.get raising, raise_for_status raising on a non-2xx
\* status, a payload that is not the expected JSON).
ResponseKinds == {"ok", "network_error", "http_error", "malformed"}

\* the body of get_latest_tag's try block: the exception it raises, or its value
FetchAndSelect(image_name, response) ==
    CASE response.kind \in {"network_error", "http_error"} ->
             [exc |-> "RequestException", value |-> None]
      [] response.kind = "malformed" ->
             [exc |-> "Exception", value |-> None]
      [] OTHER ->
             LET semantic_tags == SelectSeq(response.names, is_semantic_version)
                 hasLatest == \E i \in 1..Len(response.names) : response.names[i] = "latest"
             IN  [exc |-> "none",
                  value |-> IF semantic_tags # << >>
                            THEN Some(get_latest_semantic_version(semantic_tags))
                            ELSE IF hasLatest THEN Some("latest")
                            ELSE None]

\* get_latest_tag that tries the 'latest' fallback before the semantic tags
get_latest_tag_latest_first(image_name, response) ==
    LET r == FetchAndSelect(image_name, response)
        hasLatest == \E i \in 1..Len(response.names) : response.names[i] = "latest"
    IN  IF r.exc # "none" THEN [raised |-> FALSE, value |-> None]
        ELSE [raised |-> FALSE, value |-> IF hasLatest THEN Some("latest") ELSE r.value]

\* get_latest_tag without its catch-all handler: only requests.RequestException
\* is turned into None
get_latest_tag_request_errors_only(image_name, response) ==
    LET r == FetchAndSelect(image_name, response)
    IN  IF r.exc = "RequestException" THEN [raised |-> FALSE, value |-> None]
        ELSE IF r.exc # "none" THEN [raised |-> TRUE, value |-> None]
        ELSE [raised |-> FALSE, value |-> r.value]

\* DockerHubAPI.get_latest_tag: both handlers return None, nothing is raised
get_latest_tag(image_name, response) ==
    LET r == FetchAndSelect(image_name, response)
    IN  IF r.exc = "RequestException" THEN [raised |-> FALSE, value |-> None]
        ELSE IF r.exc # "none" THEN [raised |-> FALSE, value |-> None]
        ELSE [raised |-> FALSE, value |-> r.value]

-----------------------------------------------------------------------------
(* Dockerfile parser (class DockerfileParser) *)

\* dataclass DockerImage; registry is Optional[str]
DockerImage(name, tagOf, registry) == [name |-> name, tag |-> tagOf, registry |-> registry]

\* DockerfileParser._parse_from_statement: None, or Some(DockerImage)
parse_from_statement(line) ==
    LET stripped == Strip(SubSeq(line, 6, Len(line)))
        image_part == IF Contains(Upper(stripped), " AS ")
                      THEN Strip(Split(stripped, " AS ")[1])
                      ELSE stripped
    IN  IF Lower(image_part) = "scratch" \/ StartsWith(image_part, "$") THEN None
        ELSE IF Contains(image_part, "/") /\ Count(image_part, "/") >= 2
        THEN LET parts == Split(image_part, "/")
                 last == parts[Len(parts)]
                 registry == parts[1]
                 name == Join(SubSeq(parts, 2, Len(parts) - 1), "/")
                             \o "/" \o Split(last, ":")[1]
                 tagOf == IF Contains(last, ":") THEN Split(last, ":")[2] ELSE "latest"
             IN  Some(DockerImage(name, tagOf, Some(registry)))
        ELSE LET nt == IF Contains(image_part, ":")
                       THEN RSplit1(image_part, ":")
                       ELSE << image_part, "latest" >>
             IN  Some(DockerImage(nt[1], nt[2], None))

\* the loop of parse_dockerfile over lines[i..]
RECURSIVE ParseLines(_, _)
ParseLines(lines, i) ==
    IF i > Len(lines) THEN << >>
    ELSE LET line == Strip(lines[i])
             found == IF StartsWith(line, "FROM ") THEN parse_from_statement(line) ELSE None
         IN  found \o ParseLines(lines, i + 1)

\* DockerfileParser.parse_dockerfile
parse_dockerfile(text) == ParseLines(Split(text, "\n"), 1)

-----------------------------------------------------------------------------
(* Scanner (class GitLabEvergreenScanner) *)

\* dataclass UpdateCandidate
UpdateCandidate(current, latestImage, path, line) ==
    [current_image |-> current, latest_image |-> latestImage,
     dockerfile_path |-> path, line_number |-> line]

\* os.path.basename(path)
Basename(path) == LET p == RSplit1(path, "/") IN p[Len(p)]

\* the test of _filter_dockerfiles on one path
IsDockerfilePath(path) ==
    LET filename == Lower(Basename(path))
    IN  \/ filename = "dockerfile"
        \/ StartsWith(filename, "dockerfile.")
        \/ Len(filename) >= Len(".dockerfile")
              /\ SubSeq(filename, Len(filename) - Len(".dockerfile") + 1, Len(filename))
                     = ".dockerfile"

\* GitLabEvergreenScanner._filter_dockerfiles
filter_dockerfiles(files) == SelectSeq(files, IsDockerfilePath)

\* GitLabEvergreenScanner._should_check_image
should_check_image(img) ==
    IF img.tag = "latest" THEN FALSE
    ELSE IF img.registry # None /\ img.registry[1] # ""
              /\ ~Contains(img.registry[1], "docker.io") THEN FALSE
    ELSE TRUE

\* the update test of _scan_dockerfile without the comparison with the
\* current tag
candidates_for_any_latest(img, latest_tag, path, line) ==
    IF latest_tag # None /\ latest_tag[1] # ""
    THEN << UpdateCandidate(img, DockerImage(img.name, latest_tag[1], img.registry),
                            path, line) >>
    ELSE << >>

\* _scan_dockerfile, the body of "if latest_tag and latest_tag != image.tag":
\* the candidates (none or one) the image at position line adds
candidates_for(img, latest_tag, path, line) ==
    IF latest_tag # None /\ latest_tag[1] # "" /\ latest_tag[1] # img.tag
    THEN << UpdateCandidate(img, DockerImage(img.name, latest_tag[1], img.registry),
                            path, line) >>
    ELSE << >>

-----------------------------------------------------------------------------
(* Inputs of the classifier *)

TagAlphabet == {"v", "0", "1", ".", "-", "a", "\n"}

RECURSIVE StringsOfLen(_, _)
StringsOfLen(alphabet, n) ==
    IF n = 0 THEN {""}
    ELSE {s \o c : s \in StringsOfLen(alphabet, n - 1), c \in alphabet}

\* the tags the test suite classifies (test_semantic_version_detection)
SemanticExamples ==
    {"1.2.3", "v1.2.3", "1.2", "1.2.3-alpine", "2.0.0-rc1", "2.4.0-rc1",
     "1.2.3-slim-bullseye"}
NonSemanticExamples == {"latest", "alpine", "main", "master", "stable", "edge"}

-----------------------------------------------------------------------------
(* Idle values of the variables a specification does not use *)

ClassifyIdle == tag = "" /\ semantic = None
SelectIdle ==
    /\ tags = << >> /\ latest = None
    /\ selected = [called |-> FALSE, kind |-> "ok", raised |-> FALSE, value |-> None]
ParseIdle ==
    /\ content = "" /\ from_line = "" /\ images = << >> /\ image = None
    /\ parsed = {}
ScanIdle ==
    /\ pc = "idle" /\ repo_files = << >> /\ dockerfiles = << >> /\ file_no = 0
    /\ file_images = << >> /\ idx = 0 /\ responses = << >>
    /\ file_candidates = << >> /\ update_candidates = << >>
    /\ file_error = "none" /\ scan_error = FALSE
RewriteIdle ==
    /\ main_content = "" /\ branch_content = None /\ candidate = None
    /\ pushes = << >> /\ dockerfile = None /\ updates = << >>
JobIdle ==
    /\ job_input = [config_valid |-> TRUE, write_ok |-> TRUE,
                    hub |-> [kind |-> "no_call", names |-> << >>]]
    /\ pipeline_env = [UPDATES_NEEDED |-> "unset", CHANGES_MADE |-> "unset"]
    /\ exits = << >>
ConfigIdle ==
    /\ config_file = [kind |-> "missing"] /\ environ = << >>
    /\ config = None /\ config_error = "none"
ManagerIdle ==
    /\ project_candidates = << >> /\ remote_branches = {} /\ commits = << >>
    /\ merge_requests = << >> /\ clock = 0 /\ started = 0 /\ scans = << >>
    /\ manual_ids = << >> /\ last_scan_result = None /\ scan_history = << >>
    /\ recorded = << >>

PipelineIdle ==
    /\ ci_variables = << >> /\ artifacts = << >> /\ git_commands = << >>
    /\ created_mrs = << >> /\ stages = << >>

LabIdle == RewriteIdle /\ JobIdle /\ ConfigIdle /\ ManagerIdle /\ PipelineIdle

-----------------------------------------------------------------------------
(* Specification of the classifier: _is_semantic_version on any tag *)

InitClassify ==
    /\ \/ \E n \in 0..MaxTagLen : tag \in StringsOfLen(TagAlphabet, n)
       \/ tag \in SemanticExamples \cup NonSemanticExamples
    /\ semantic = None
    /\ SelectIdle /\ ParseIdle /\ ScanIdle /\ LabIdle

IsSemanticVersion ==
    /\ semantic = None
    /\ semantic' = Some(is_semantic_version(tag))
    /\ UNCHANGED <<tag, selectVars, parseVars, scanVars, labVars>>

NextClassify == IsSemanticVersion

SpecClassify == InitClassify /\ [][NextClassify]_vars

-----------------------------------------------------------------------------
(* Specification of the selection: _get_latest_semantic_version and         *)
(* get_latest_tag on any tag listing Docker Hub may return                  *)

\* tag names as Docker Hub lists them
TagPool ==
    {"1.0.0", "1.0.0-alpha", "1.0.0-beta", "v3.9.1", "v3.11.0", "2.1", "2.0.1",
     "latest", "alpine"}

RECURSIVE SeqsOfLen(_, _)
SeqsOfLen(S, n) ==
    IF n = 0 THEN {<< >>}
    ELSE {Append(q, x) : q \in SeqsOfLen(S, n - 1), x \in S}

SeqsUpTo(S, n) == UNION {SeqsOfLen(S, k) : k \in 0..n}

Range(seq) == {seq[i] : i \in 1..Len(seq)}

InitSelect ==
    /\ tags \in SeqsUpTo(TagPool, MaxTags)
    /\ latest = None
    /\ selected = [called |-> FALSE, kind |-> "ok", raised |-> FALSE, value |-> None]
    /\ ClassifyIdle /\ ParseIdle /\ ScanIdle /\ LabIdle

GetLatestSemanticVersion ==
    /\ latest = None
    /\ tags # << >>
    /\ latest' = Some(get_latest_semantic_version(tags))
    /\ UNCHANGED <<tags, selected, classifyVars, parseVars, scanVars, labVars>>

GetLatestTag ==
    /\ ~selected.called
    /\ \E kind \in ResponseKinds :
          LET r == get_latest_tag("python", [kind |-> kind, names |-> tags])
          IN  selected' = [called |-> TRUE, kind |-> kind,
                           raised |-> r.raised, value |-> r.value]
    /\ UNCHANGED <<tags, latest, classifyVars, parseVars, scanVars, labVars>>

NextSelect == GetLatestSemanticVersion \/ GetLatestTag

SpecSelect == InitSelect /\ [][NextSelect]_vars

-----------------------------------------------------------------------------
(* Specification of the parser: parse_dockerfile on Dockerfile texts and    *)
(* _parse_from_statement on FROM lines                                      *)

\* lines of a Dockerfile
LinePool ==
    {"FROM python:3.9", "FROM node:16 AS builder", "FROM node:16 as builder",
     "FROM scratch", "FROM scratch as base", "FROM $BASE", "  FROM nginx:1.20  ",
     "FROM r.io/a/b:1.0", "# FROM nginx:1.0", "from alpine:3", "RUN make", "",
     "FROM :1.0", "FROM app:"}

DockerfileTexts == {Join(q, "\n") : q \in SeqsUpTo(LinePool, MaxLines)}

\* '/'-separated segments of an image reference
SegmentPool == {"app", "app:1.0", "r.io", "docker.io", "localhost:5000", "app:1:2"}

References ==
    {Join(q, "/") : q \in SeqsUpTo(SegmentPool, MaxSegments) \ {<< >>}}
        \cup {"scratch", "SCRATCH", "$BASE", "${BASE:-python:3.9}"}

Aliases == {"", " AS build", " as build", " As build"}

FromLines == {"FROM " \o r \o a : r \in References, a \in Aliases}

InitParse ==
    /\ \/ content \in DockerfileTexts /\ from_line = ""
       \/ content = "" /\ from_line \in FromLines
    /\ images = << >>
    /\ image = None
    /\ parsed = {}
    /\ ClassifyIdle /\ SelectIdle /\ ScanIdle /\ LabIdle

ParseDockerfile ==
    /\ "dockerfile" \notin parsed
    /\ images' = parse_dockerfile(content)
    /\ parsed' = parsed \cup {"dockerfile"}
    /\ UNCHANGED <<content, from_line, image, classifyVars, selectVars, scanVars, labVars>>

ParseFromStatement ==
    /\ "statement" \notin parsed
    /\ StartsWith(from_line, "FROM ")
    /\ image' = parse_from_statement(from_line)
    /\ parsed' = parsed \cup {"statement"}
    /\ UNCHANGED <<content, from_line, images, classifyVars, selectVars, scanVars, labVars>>

NextParse == ParseDockerfile \/ ParseFromStatement

SpecParse == InitParse /\ [][NextParse]_vars

-----------------------------------------------------------------------------
(* Specification of the scan: scan_dockerfiles over the Dockerfiles of a    *)
(* repository, one Docker Hub exchange per image that is checked            *)

\* blobs of a repository tree
PathPool == {"Dockerfile", "docker/app.dockerfile", "README.md"}

RepoListings ==
    {q \in SeqsUpTo(PathPool, MaxFiles) : \A i, j \in 1..Len(q) : i # j => q[i] # q[j]}

\* contents of the Dockerfiles of a repository
ScanTexts ==
    {"FROM python:3.9\nFROM node:16.0 AS build",
     "FROM nginx:latest\nFROM python:3.9",
     "FROM r.io/a/b:1.0\nRUN make\nFROM python:3.9",
     "FROM docker.io/library/node:16.0",
     "FROM mydocker.io/a/b:1.0",
     "FROM python:3.9.18-slim",
     "FROM scratch"}

\* tag listings of Docker Hub
ListingPool ==
    {<<"3.9", "3.10">>, <<"3.9">>, <<"16.0", "latest">>, <<"latest", "alpine">>,
     <<"alpine">>, <<"3.11.1", "3.9.18">>}

Responses ==
    {[kind |-> "ok", names |-> n] : n \in ListingPool}
        \cup {[kind |-> k, names |-> << >>] : k \in ResponseKinds \ {"ok"}}

\* no exchange: the image was not checked
NoCall == [kind |-> "no_call", names |-> << >>]

InitScan ==
    /\ pc = "start"
    /\ repo_files \in RepoListings
    /\ dockerfiles = << >> /\ file_no = 0
    /\ file_images = << >> /\ idx = 0 /\ responses = << >>
    /\ file_candidates = << >> /\ update_candidates = << >>
    /\ file_error = "none" /\ scan_error = FALSE
    /\ ClassifyIdle /\ SelectIdle /\ ParseIdle /\ LabIdle

\* scan_dockerfiles, lines 218-219: the tree is listed and filtered, or listing
\* it raises and the handler of scan_dockerfiles ends the scan
ListDockerfiles ==
    /\ pc = "start"
    /\ \/ /\ dockerfiles' = filter_dockerfiles(repo_files)
          /\ file_no' = 1
          /\ pc' = "fetch"
          /\ UNCHANGED scan_error
       \/ /\ scan_error' = TRUE
          /\ pc' = "done"
          /\ UNCHANGED <<dockerfiles, file_no>>
    /\ UNCHANGED <<repo_files, file_images, idx, responses, file_candidates,
                   update_candidates, file_error, classifyVars, selectVars, parseVars, labVars>>

\* _scan_dockerfile, lines 271-279: the file is read and parsed, or reading it
\* raises and the handler of _scan_dockerfile returns no candidate
FetchDockerfile ==
    /\ pc = "fetch"
    /\ file_no <= Len(dockerfiles)
    /\ file_candidates' = << >>
    /\ responses' = << >>
    /\ \/ \E text \in ScanTexts :
             /\ file_images' = parse_dockerfile(text)
             /\ idx' = 1
             /\ file_error' = "none"
             /\ pc' = "check"
       \/ /\ file_images' = << >>
          /\ idx' = 1
          /\ file_error' = "read"
          /\ pc' = "return"
    /\ UNCHANGED <<repo_files, dockerfiles, file_no, update_candidates, scan_error,
                   classifyVars, selectVars, parseVars, labVars>>

\* _scan_dockerfile, lines 284-303: one turn of the loop over the images
CheckImage ==
    /\ pc = "check"
    /\ idx <= Len(file_images)
    /\ LET img == file_images[idx]
       IN  IF should_check_image(img)
           THEN \E response \in Responses :
                   LET r == get_latest_tag(img.name, response)
                   IN  /\ responses' = Append(responses, response)
                       /\ IF r.raised
                          THEN /\ file_error' = "check"
                               /\ pc' = "return"
                               /\ UNCHANGED <<idx, file_candidates>>
                          ELSE /\ file_candidates' =
                                      file_candidates
                                          \o candidates_for(img, r.value,
                                                            dockerfiles[file_no], idx)
                               /\ idx' = idx + 1
                               /\ UNCHANGED <<file_error, pc>>
           ELSE /\ responses' = Append(responses, NoCall)
                /\ idx' = idx + 1
                /\ UNCHANGED <<file_candidates, file_error, pc>>
    /\ UNCHANGED <<repo_files, dockerfiles, file_no, file_images, update_candidates,
                   scan_error, classifyVars, selectVars, parseVars, labVars>>

\* _scan_dockerfile, line 308, and scan_dockerfiles, line 225: the candidates of
\* the file are returned and appended
ReturnCandidates ==
    /\ \/ pc = "check" /\ idx > Len(file_images)
       \/ pc = "return"
    /\ update_candidates' = update_candidates \o file_candidates
    /\ file_no' = file_no + 1
    /\ pc' = "fetch"
    /\ UNCHANGED <<repo_files, dockerfiles, file_images, idx, responses,
                   file_candidates, file_error, scan_error,
                   classifyVars, selectVars, parseVars, labVars>>

\* scan_dockerfiles, line 230
ReturnScan ==
    /\ pc = "fetch"
    /\ file_no > Len(dockerfiles)
    /\ pc' = "done"
    /\ UNCHANGED <<repo_files, dockerfiles, file_no, file_images, idx, responses,
                   file_candidates, update_candidates, file_error, scan_error,
                   classifyVars, selectVars, parseVars, labVars>>

Next ==
    \/ ListDockerfiles
    \/ FetchDockerfile
    \/ CheckImage
    \/ ReturnCandidates
    \/ ReturnScan

Spec == InitScan /\ [][Next]_vars

-----------------------------------------------------------------------------
(* Properties of the classifier and of the selection *)

AllSemantic(seq) == \A i \in 1..Len(seq) : is_semantic_version(seq[i])

\* The (major, minor, patch) tuple of a semantic tag, read off its text: drop a
\* leading v, drop everything from the first hyphen on, split at the dots.
TupleOfTag(t) ==
    LET noV == IF StartsWith(t, "v") THEN SubSeq(t, 2, Len(t)) ELSE t
        nums == Split(Split(noV, "-")[1], ".")
    IN  << ToInt(nums[1]), ToInt(nums[2]), IF Len(nums) >= 3 THEN ToInt(nums[3]) ELSE 0 >>

\* The whole tag is: optional v, digits, '.', digits, optional '.' digits,
\* optional '-' followed by one or more word/dot/hyphen characters.
HasSemanticForm(t) ==
    \E a \in 0..1 : \E b, c, d \in 1..Len(t) :
        /\ a = 1 => Ch(t, 1) = "v"
        /\ b >= a + 1 /\ \A k \in (a + 1)..b : Ch(t, k) \in Digits
        /\ b + 1 <= Len(t) /\ Ch(t, b + 1) = "."
        /\ c >= b + 2 /\ \A k \in (b + 2)..c : Ch(t, k) \in Digits
        /\ \/ d = c
           \/ /\ c + 1 <= Len(t) /\ Ch(t, c + 1) = "."
              /\ d >= c + 2 /\ \A k \in (c + 2)..d : Ch(t, k) \in Digits
        /\ \/ d = Len(t)
           \/ /\ d + 1 <= Len(t) /\ Ch(t, d + 1) = "-"
              /\ Len(t) >= d + 2 /\ \A k \in (d + 2)..Len(t) : Ch(t, k) \in SuffixChars

\* C2: on a returned tag list get_latest_tag returns the latest of the semantic
\* tags when there is one, else "latest" when the list holds a tag named
\* "latest", else None; "latest" is never chosen while a semantic tag exists.
C2_SelectStep ==
    (selected.called /\ selected.kind = "ok") =>
        LET semantic_tags == SelectSeq(tags, is_semantic_version)
        IN  /\ ~selected.raised
            /\ semantic_tags # << >> =>
                  /\ selected.value = Some(get_latest_semantic_version(semantic_tags))
                  /\ selected.value[1] \in Range(semantic_tags)
                  /\ selected.value # Some("latest")
                  /\ \A t \in Range(semantic_tags) :
                        ~TupleLess(TupleOfTag(selected.value[1]), TupleOfTag(t))
            /\ (semantic_tags = << >> /\ "latest" \in Range(tags)) =>
                  selected.value = Some("latest")
            /\ (semantic_tags = << >> /\ "latest" \notin Range(tags)) =>
                  selected.value = None

\* C2 witness: a listing with both a semantic tag and "latest" has been selected from
C2_Witness ==
    /\ selected.called /\ selected.kind = "ok"
    /\ "latest" \in Range(tags) /\ "v3.11.0" \in Range(tags)
    /\ selected.value = Some("v3.11.0")

\* C5: on a non-empty list of semantic tags _get_latest_semantic_version returns
\* an element of the list, unchanged, whose (major, minor, patch) tuple is the
\* numeric maximum over the list.
C5_LatestIsNumericMaximum ==
    (latest # None /\ AllSemantic(tags)) =>
        /\ latest[1] \in Range(tags)
        /\ \A t \in Range(tags) : ~TupleLess(TupleOfTag(latest[1]), TupleOfTag(t))

\* C5 witness: v3.11.0 was returned from a list that also holds v3.9.1
C5_Witness ==
    /\ latest = Some("v3.11.0") /\ AllSemantic(tags)
    /\ "v3.9.1" \in Range(tags)

\* C6: among several tags of the same maximal tuple the one that comes last in
\* the input is returned.
C6_TieBreakLast ==
    (latest # None /\ AllSemantic(tags)) =>
        LET top == {i \in 1..Len(tags) :
                       \A t \in Range(tags) : ~TupleLess(TupleOfTag(tags[i]), TupleOfTag(t))}
        IN  latest[1] = tags[Max(top)]

\* C7: _is_semantic_version is true exactly for the tags of the semantic form,
\* so true for 1.2.3, v1.2.3, 1.2, 1.2.3-alpine, 2.0.0-rc1, 1.2.3-slim-bullseye
\* and false for latest, alpine, main, master, stable, edge.
C7_SemanticIffForm ==
    semantic # None =>
        /\ semantic[1] <=> HasSemanticForm(tag)
        /\ tag \in SemanticExamples => semantic[1]
        /\ tag \in NonSemanticExamples => ~semantic[1]

-----------------------------------------------------------------------------
(* Properties of the parser *)

EndsWith(s, p) == Len(s) >= Len(p) /\ SubSeq(s, Len(s) - Len(p) + 1, Len(s)) = p

\* The image reference of a FROM line: the text after FROM, up to the stage
\* separator " AS " in any letter case when there is one.
ImageReference(line) ==
    LET rest == Strip(SubSeq(line, 6, Len(line)))
        k == Find(Upper(rest), " AS ")
    IN  IF k = 0 THEN rest ELSE Strip(SubSeq(rest, 1, k - 1))

HasAlias(line) == Contains(Upper(Strip(SubSeq(line, 6, Len(line)))), " AS ")

\* A valid FROM line: starts with "FROM ", its reference is neither scratch
\* nor a build argument.
IsValidFrom(line) ==
    /\ StartsWith(line, "FROM ")
    /\ Lower(ImageReference(line)) # "scratch"
    /\ ~StartsWith(ImageReference(line), "$")

ValidFromLines(text) ==
    LET lines == Split(text, "\n")
    IN  SelectSeq([i \in 1..Len(lines) |-> Strip(lines[i])], IsValidFrom)

\* C8: a Dockerfile text with k valid FROM lines parses to exactly k images,
\* the i-th image being that of the i-th valid FROM line; every other line
\* contributes nothing.
C8_OneImagePerValidFrom ==
    "dockerfile" \in parsed =>
        LET valid == ValidFromLines(content)
        IN  /\ Len(images) = Len(valid)
            /\ \A i \in 1..Len(valid) :
                  i <= Len(images) => Some(images[i]) = parse_from_statement(valid[i])

\* C9: when the remainder of a FROM line holds " AS " in any letter case, only
\* the portion before it is parsed: the result is that of the line without the
\* alias, and neither name nor tag holds the separator.
C9_AliasDiscarded ==
    ("statement" \in parsed /\ HasAlias(from_line)) =>
        /\ image = parse_from_statement("FROM " \o ImageReference(from_line))
        /\ image # None =>
              /\ ~Contains(Upper(image[1].name), " AS ")
              /\ ~Contains(Upper(image[1].tag), " AS ")

\* C10: the tag of a parsed reference is the text after the last ':' of the
\* final '/'-separated segment, the text before it stays in the name; without
\* a ':' in the final segment the tag is "latest".  (Stated for FROM lines
\* without a stage alias.)
C10_TagFromLastSegment ==
    ("statement" \in parsed /\ ~HasAlias(from_line) /\ image # None) =>
        LET segments == Split(ImageReference(from_line), "/")
            last == segments[Len(segments)]
            k == RFind(last, ":")
        IN  IF k # 0
            THEN /\ image[1].tag = SubSeq(last, k + 1, Len(last))
                 /\ EndsWith(image[1].name, SubSeq(last, 1, k - 1))
            ELSE /\ image[1].tag = "latest"
                 /\ EndsWith(image[1].name, last)

-----------------------------------------------------------------------------
(* Properties of the scan *)

\* canonical host of the default registry
DefaultRegistry == "docker.io"

Failures == ResponseKinds \ {"ok"}

\* candidates of the current file recorded for the image at position j
CandidatesAt(j) == {c \in Range(file_candidates) : c.line_number = j}

\* An image the Skip step excludes: floating tag, or a registry other than the
\* default one.
Skipped(img) ==
    \/ img.tag = "latest"
    \/ img.registry # None /\ img.registry[1] # DefaultRegistry

\* C1: an image whose tag is "latest" or whose registry is set to something
\* other than the default registry's host yields no candidate and causes no
\* exchange with the tag source; only the other images reach get_latest_tag.
C1_SkipStep ==
    \A j \in 1..Len(responses) :
        Skipped(file_images[j]) => (responses[j] = NoCall /\ CandidatesAt(j) = {})

\* C3: every candidate keeps name and registry and changes the tag; an image
\* whose selected latest tag is its current tag, or for which none could be
\* determined, adds no candidate.
C3_CandidateInvariant ==
    /\ \A c \in Range(update_candidates) \cup Range(file_candidates) :
          /\ c.current_image.name = c.latest_image.name
          /\ c.current_image.registry = c.latest_image.registry
          /\ c.current_image.tag # c.latest_image.tag
    /\ \A j \in 1..Len(responses) :
          LET lt == FetchAndSelect(file_images[j].name, responses[j]).value
          IN  (responses[j] = NoCall \/ lt = None \/ lt = Some(file_images[j].tag))
                  => CandidatesAt(j) = {}

\* C3 witness: in one file an image already at the selected tag added nothing
\* and another image added a candidate
C3_Witness ==
    /\ file_candidates # << >>
    /\ \E j \in 1..Len(responses) :
          /\ responses[j].kind = "ok"
          /\ FetchAndSelect(file_images[j].name, responses[j]).value
                 = Some(file_images[j].tag)

\* what the image at position j of the current file adds when its exchange is
\* looked at alone: nothing on a failure, the update the listing implies otherwise
ResolvedAlone(j) ==
    LET img == file_images[j]
        lt == FetchAndSelect(img.name, responses[j]).value
    IN  IF responses[j].kind = "ok" /\ lt # None /\ lt # Some(img.tag)
        THEN << UpdateCandidate(img, DockerImage(img.name, lt[1], img.registry),
                                dockerfiles[file_no], j) >>
        ELSE << >>

RECURSIVE ResolvedAloneUpTo(_)
ResolvedAloneUpTo(n) ==
    IF n = 0 THEN << >> ELSE ResolvedAloneUpTo(n - 1) \o ResolvedAlone(n)

IsSuffix(q, r) == Len(q) <= Len(r) /\ SubSeq(r, Len(r) - Len(q) + 1, Len(r)) = q

\* C4: a failure of the tag source for one image raises nothing into the scan
\* loop and adds no candidate, and every other image of the file, and every
\* other file, is resolved as its own exchange alone decides.
C4_PartialFailureIsolation ==
    /\ file_error # "check"
    /\ pc = "check" =>
          /\ Len(responses) = idx - 1
          /\ file_candidates = ResolvedAloneUpTo(idx - 1)
    /\ \A j \in 1..Len(responses) :
          responses[j].kind \in Failures => CandidatesAt(j) = {}
    /\ (pc = "fetch" /\ file_no > 1) =>
          /\ file_error = "none" => Len(responses) = Len(file_images)
          /\ IsSuffix(file_candidates, update_candidates)

\* C4 witness: the exchange for the first image of a file failed and the second
\* image of the same file added a candidate
C4_Witness ==
    /\ Len(responses) >= 2
    /\ responses[1].kind \in Failures
    /\ responses[2].kind = "ok"
    /\ CandidatesAt(2) # {}

-----------------------------------------------------------------------------
(* Properties of the parser: registry detection, skipped lines, field       *)
(* invariants                                                               *)

\* the final '/'-separated segment of a reference without its ":tag" suffix
WithoutTagSuffix(last) ==
    LET k == RFind(last, ":")
    IN  IF k # 0 THEN SubSeq(last, 1, k - 1) ELSE last

\* C11: a parsed reference with two or more '/' separators has the first
\* segment as registry and the remaining segments, joined by '/' and without
\* the ":tag" suffix, as name; with fewer than two '/' separators the registry
\* is null and the name is the whole reference before the trailing ":tag".
\* (Stated for FROM lines without a stage alias.)
C11_RegistryDetection ==
    ("statement" \in parsed /\ ~HasAlias(from_line) /\ image # None) =>
        LET ref == ImageReference(from_line)
            segments == Split(ref, "/")
            n == Len(segments)
            stem == WithoutTagSuffix(segments[n])
        IN  IF Count(ref, "/") >= 2
            THEN /\ image[1].registry = Some(segments[1])
                 /\ image[1].name = Join(SubSeq(segments, 2, n - 1) \o << stem >>, "/")
            ELSE /\ image[1].registry = None
                 /\ image[1].name = Join(SubSeq(segments, 1, n - 1) \o << stem >>, "/")

\* lines of a Dockerfile that is made of skipped FROM lines only
IsSkippedFrom(line) ==
    /\ StartsWith(line, "FROM ")
    /\ \/ Lower(ImageReference(line)) = "scratch"
       \/ StartsWith(ImageReference(line), "$")

OnlySkippedFroms(text) ==
    LET lines == Split(text, "\n")
    IN  \A i \in 1..Len(lines) : IsSkippedFrom(Strip(lines[i]))

\* C12: a FROM line whose image reference is "scratch" in any letter case, or
\* begins with "$", produces no image; a Dockerfile made of such FROM lines
\* only parses to the empty sequence.
C12_ScratchAndArgsSkipped ==
    /\ ("statement" \in parsed /\ IsSkippedFrom(from_line)) => image = None
    /\ ("dockerfile" \in parsed /\ OnlySkippedFroms(content)) => images = << >>

\* C13: every image parse_dockerfile returns has a non-empty name and a
\* non-empty tag.
C13_NameAndTagNonEmpty ==
    "dockerfile" \in parsed =>
        \A i \in 1..Len(images) : images[i].name # "" /\ images[i].tag # ""

-----------------------------------------------------------------------------
(* Dockerfile rewriters: GitLabEvergreenScanner._update_dockerfile (lab-10) *)
(* and DockerfileUpdater.update_image_version (lab-11)                      *)

\* DockerImage.__str__ without the test of the registry
image_str_always_registry(img) ==
    (IF img.registry = None THEN "None" ELSE img.registry[1])
        \o "/" \o img.name \o ":" \o img.tag

\* DockerImage.__str__
image_str(img) ==
    IF img.registry # None /\ img.registry[1] # ""
    THEN img.registry[1] \o "/" \o img.name \o ":" \o img.tag
    ELSE img.name \o ":" \o img.tag

\* s.replace(old, new, 1): the first occurrence only
ReplaceFirst(s, old, new) ==
    LET i == Find(s, old)
    IN  IF i = 0 THEN s
        ELSE SubSeq(s, 1, i - 1) \o new \o SubSeq(s, i + Len(old), Len(s))

\* s.replace(old, new): every non-overlapping occurrence, left to right
RECURSIVE Replace(_, _, _)
Replace(s, old, new) ==
    IF old = ""
    THEN IF s = "" THEN new
         ELSE new \o Ch(s, 1) \o Replace(SubSeq(s, 2, Len(s)), old, new)
    ELSE LET i == Find(s, old)
         IN  IF i = 0 THEN s
             ELSE SubSeq(s, 1, i - 1) \o new
                      \o Replace(SubSeq(s, i + Len(old), Len(s)), old, new)

\* _update_dockerfile, lines 388-392: the content it saves on the branch
update_dockerfile(text, cand) ==
    Replace(text, image_str(cand.current_image), image_str(cand.latest_image))

\* end of the run of non-whitespace characters of s that starts at i ([^\s]+)
RECURSIVE NonSpaceEnd(_, _)
NonSpaceEnd(s, i) ==
    IF i <= Len(s) /\ Ch(s, i) \notin Whitespace THEN NonSpaceEnd(s, i + 1) ELSE i

\* re.search(rf"FROM {re.escape(image_name)}:([^\s]+)", text): group 1 of the
\* first match, None without a match
search_from(text, image_name) ==
    LET prefix == "FROM " \o image_name \o ":"
        n == Len(prefix)
        hits == {i \in 1..(Len(text) - n) :
                    /\ SubSeq(text, i, i + n - 1) = prefix
                    /\ Ch(text, i + n) \notin Whitespace}
    IN  IF hits = {} THEN None
        ELSE LET i == Min(hits)
             IN  Some(SubSeq(text, i + n, NonSpaceEnd(text, i + n) - 1))

\* DockerfileUpdater.get_current_image_version on the file (<< >>: no file)
get_current_image_version(file, image_name) ==
    IF file = None \/ file[1] = "" THEN None ELSE search_from(file[1], image_name)

\* update_image_version, lines 133-157: the write and the verification of
\* the version read back
write_and_verify(file, image_name, new_version, new_content, write_ok) ==
    IF ~write_ok THEN [result |-> FALSE, file |-> file]
    ELSE [result |-> get_current_image_version(Some(new_content), image_name)
                         = Some(new_version),
          file |-> Some(new_content)]

\* update_image_version, lines 130-131: "No changes made" when re.sub left the
\* content as it was
apply_substitution(file, image_name, new_version, new_content, write_ok) ==
    IF new_content = file[1] THEN [result |-> FALSE, file |-> file]
    ELSE write_and_verify(file, image_name, new_version, new_content, write_ok)

\* update_image_version, lines 109-127, with the current version it found
update_from_version(file, image_name, current_version, new_version, write_ok) ==
    IF current_version = None THEN [result |-> FALSE, file |-> file]
    ELSE IF current_version[1] = new_version THEN [result |-> TRUE, file |-> file]
    ELSE apply_substitution(file, image_name, new_version,
             Replace(file[1], "FROM " \o image_name \o ":" \o current_version[1],
                              "FROM " \o image_name \o ":" \o new_version),
             write_ok)

\* DockerfileUpdater.update_image_version: what it returns and the file it
\* leaves; write_ok tells whether write_dockerfile succeeds
update_image_version(file, image_name, new_version, write_ok) ==
    IF file = None \/ file[1] = "" THEN [result |-> FALSE, file |-> file]
    ELSE update_from_version(file, image_name,
                             get_current_image_version(file, image_name),
                             new_version, write_ok)

-----------------------------------------------------------------------------
(* Specification of the rewrite: _update_dockerfile with a candidate of the *)
(* scan (lab-10), update_image_version on the configured image (lab-11)     *)

\* lines of the Dockerfiles that are rewritten
RewriteLines ==
    {"FROM python:3.9-slim", "FROM python:3.9-slim AS build", "FROM python:3.9",
     "FROM docker.io/library/node:16.0", "# FROM python:3.8-slim",
     "RUN make"}

\* tags a resolution may return
NewTags == {"3.12-slim", "3.9"}

\* DockerImageChecker.IMAGE_CONFIGS: the one configured image
ConfiguredImage == "python"

\* every candidate _scan_dockerfile can build from the text of a Dockerfile
CandidatesOf(text) ==
    LET imgs == parse_dockerfile(text)
    IN  {c \in UNION {Range(candidates_for(imgs[i], Some(t), "Dockerfile", i)) :
                         i \in 1..Len(imgs), t \in NewTags} :
            should_check_image(c.current_image)}

InitRewrite ==
    /\ \E k \in 1..MaxStages : \E q \in SeqsOfLen(RewriteLines, k) :
          LET text == Join(q, "\n")
          IN  \/ /\ main_content = text
                 /\ \E c \in CandidatesOf(text) : candidate = Some(c)
                 /\ dockerfile = None
              \/ /\ main_content = "" /\ candidate = None
                 /\ dockerfile \in {None, Some(""), Some(text)}
    /\ branch_content = None
    /\ pushes = << >>
    /\ updates = << >>
    /\ ClassifyIdle /\ SelectIdle /\ ParseIdle /\ ScanIdle /\ JobIdle /\ ConfigIdle
    /\ ManagerIdle /\ PipelineIdle

\* _update_dockerfile(candidate, branch_name): the file is read from main, the
\* reference replaced and the result saved on the branch; reading or saving
\* may raise GitlabError, which the function logs and raises again
UpdateDockerfile ==
    /\ candidate # None
    /\ Len(pushes) < MaxApplications
    /\ \E outcome \in {"saved", "get_raised", "save_raised"} :
          LET updated_content == update_dockerfile(main_content, candidate[1])
          IN  IF outcome = "saved"
              THEN /\ branch_content' = Some(updated_content)
                   /\ pushes' = Append(pushes, [before |-> main_content,
                                                after |-> Some(updated_content),
                                                raised |-> FALSE])
              ELSE /\ UNCHANGED branch_content
                   /\ pushes' = Append(pushes, [before |-> main_content,
                                                after |-> None, raised |-> TRUE])
    /\ UNCHANGED <<main_content, candidate, dockerfile, updates,
                   classifyVars, selectVars, parseVars, scanVars, jobVars,
                   configVars, managerVars, pipelineVars>>

\* the merge request of create_update_branch_and_mr (target_branch main) is
\* merged: main takes the content of the update branch
MergeRequestMerged ==
    /\ branch_content # None
    /\ main_content # branch_content[1]
    /\ main_content' = branch_content[1]
    /\ UNCHANGED <<branch_content, candidate, pushes, dockerfile, updates,
                   classifyVars, selectVars, parseVars, scanVars, jobVars,
                   configVars, managerVars, pipelineVars>>

\* update_image_version(image_name, new_version) on the Dockerfile of the
\* working copy
UpdateImageVersion ==
    /\ candidate = None
    /\ Len(updates) < MaxApplications
    /\ \E new_version \in NewTags, write_ok \in BOOLEAN :
          LET r == update_image_version(dockerfile, ConfiguredImage, new_version, write_ok)
          IN  /\ dockerfile' = r.file
              /\ updates' = Append(updates, [image_name |-> ConfiguredImage,
                                             new_version |-> new_version,
                                             before |-> dockerfile,
                                             after |-> r.file,
                                             result |-> r.result])
    /\ UNCHANGED <<main_content, branch_content, candidate, pushes,
                   classifyVars, selectVars, parseVars, scanVars, jobVars,
                   configVars, managerVars, pipelineVars>>

NextRewrite == UpdateDockerfile \/ MergeRequestMerged \/ UpdateImageVersion

SpecRewrite == InitRewrite /\ [][NextRewrite]_vars

-----------------------------------------------------------------------------
(* Properties of the rewrite *)

\* c is a candidate the scan builds from a Dockerfile with the images imgs:
\* c \in CandidatesOf(text) for the text the images were parsed from
IsCandidateAmong(imgs, c) ==
    /\ c.line_number \in 1..Len(imgs)
    /\ c.latest_image.tag \in NewTags
    /\ should_check_image(c.current_image)
    /\ c \in Range(candidates_for(imgs[c.line_number], Some(c.latest_image.tag),
                                  "Dockerfile", c.line_number))

\* a call of _update_dockerfile that saved, with the candidate the scan builds
\* from the content the call read
FirstApplication(p) ==
    /\ candidate # None
    /\ ~p.raised
    /\ IsCandidateAmong(parse_dockerfile(p.before), candidate[1])

\* a call of update_image_version that rewrote the file and reported success
Rewrote(u) == u.result /\ u.after # u.before

\* the tags of the "FROM image_name:tag" of the text, in their order
RECURSIVE FromTags(_, _)
FromTags(text, image_name) ==
    LET prefix == "FROM " \o image_name \o ":"
        i == Find(text, prefix)
    IN  IF i = 0 THEN << >>
        ELSE LET e == NonSpaceEnd(text, i + Len(prefix))
             IN  << SubSeq(text, i + Len(prefix), e - 1) >>
                     \o FromTags(SubSeq(text, e, Len(text)), image_name)

\* C14: round trip.  After the rewrite for a candidate, parsing the saved text
\* yields at the candidate's position the candidate's latest image (same name
\* and registry, tag the latest tag); after a successful update_image_version
\* the file reports the new version for the image.  Stated of the latest
\* application: the histories grow by one entry, so every application is the
\* latest one in the state that follows it.
C14_RoundTrip ==
    /\ \A i \in {Len(pushes)} \ {0} :
          FirstApplication(pushes[i]) =>
              LET result == parse_dockerfile(pushes[i].after[1])
                  line == candidate[1].line_number
              IN  /\ line <= Len(result)
                  /\ result[line] = candidate[1].latest_image
                  /\ result[line].tag # candidate[1].current_image.tag
    /\ \A i \in {Len(updates)} \ {0} :
          Rewrote(updates[i]) =>
              get_current_image_version(updates[i].after, updates[i].image_name)
                  = Some(updates[i].new_version)

C14_Witness ==
    /\ Len(pushes) >= 1
    /\ FirstApplication(pushes[1])
    /\ pushes[1].after # Some(pushes[1].before)
    /\ candidate[1].line_number = 2

\* C15: when the same update is applied a second time to the text the first
\* application produced, in which the old tag no longer occurs, the second
\* application reports a failure.
C15_SecondApplicationFails ==
    /\ \A i \in 1..(Len(updates) - 1) :
          (/\ Rewrote(updates[i])
           /\ updates[i + 1].new_version = updates[i].new_version
           /\ get_current_image_version(updates[i].before, updates[i].image_name)
                  \notin {Some(t) : t \in Range(FromTags(updates[i].after[1],
                                                         updates[i].image_name))})
              => ~updates[i + 1].result
    /\ \A i \in 1..(Len(pushes) - 1) :
          (/\ FirstApplication(pushes[i])
           /\ ~pushes[i + 1].raised
           /\ Some(pushes[i + 1].before) = pushes[i].after
           /\ candidate[1].current_image \notin Range(parse_dockerfile(pushes[i + 1].before)))
              => FALSE

\* C16: a rewrite that leaves the content unchanged, or after which the text
\* does not show the new tag, is reported as a failure and saves nothing.
C16_NoSilentNoOp ==
    /\ \A i \in 1..Len(pushes) :
          ~pushes[i].raised =>
              /\ pushes[i].after # Some(pushes[i].before)
              /\ candidate[1].latest_image \in Range(parse_dockerfile(pushes[i].after[1]))
    /\ \A i \in 1..Len(updates) :
          updates[i].result =>
              get_current_image_version(updates[i].after, updates[i].image_name)
                  = Some(updates[i].new_version)

\* positions of the images of a text that equal img
PositionsOf(text, img) ==
    LET imgs == parse_dockerfile(text) IN {j \in 1..Len(imgs) : imgs[j] = img}

\* the positions that held the image old hold the image new afterwards
ImagesReplaced(was, now, old, new) ==
    \A j \in 1..Len(was) :
        was[j] = old => j <= Len(now) /\ now[j] = new /\ now[j] # old

\* a first application for candidate c, from the images was to the images
\* now, replaced every occurrence of the current image
PushReplaced(was, now, c) ==
    IsCandidateAmong(was, c) => ImagesReplaced(was, now, c.current_image, c.latest_image)

\* the stages whose tag was old have the tag new afterwards
StagesReplaced(was, now, old, new) ==
    /\ Len(now) = Len(was)
    /\ \A j \in 1..Len(was) : was[j] = old => now[j] = new /\ now[j] # old

\* C17: one rewrite replaces every occurrence of the reference: each stage
\* that had the old reference has the new one afterwards, so none of them
\* keeps the old reference.  Stated of the latest application, as C14.
C17_AllOccurrencesReplaced ==
    /\ \A i \in {Len(pushes)} \ {0} :
          (candidate # None /\ ~pushes[i].raised) =>
              PushReplaced(parse_dockerfile(pushes[i].before),
                           parse_dockerfile(pushes[i].after[1]), candidate[1])
    /\ \A i \in {Len(updates)} \ {0} :
          Rewrote(updates[i]) =>
              StagesReplaced(FromTags(updates[i].before[1], updates[i].image_name),
                             FromTags(updates[i].after[1], updates[i].image_name),
                             get_current_image_version(updates[i].before,
                                                       updates[i].image_name)[1],
                             updates[i].new_version)

C17_Witness ==
    /\ Len(pushes) >= 1
    /\ FirstApplication(pushes[1])
    /\ Cardinality(PositionsOf(pushes[1].before, candidate[1].current_image)) >= 2

-----------------------------------------------------------------------------
(* lab-11 scripts: docker_image_checker.py and dockerfile_updater.py        *)

\* DockerImageChecker.IMAGE_CONFIGS, by name
IMAGE_CONFIGS == << ConfiguredImage >>

\* Python's ordering of two tuples of integers: a < b
RECURSIVE SeqLess(_, _)
SeqLess(a, b) ==
    IF Len(b) = 0 THEN FALSE
    ELSE IF Len(a) = 0 THEN TRUE
    ELSE IF a[1] # b[1] THEN a[1] < b[1]
    ELSE SeqLess(Tail(a), Tail(b))

\* pattern.match(tag) for the tag_filter of the configured image,
\* r"^[0-9]+\.[0-9]+(\.[0-9]+)?-slim$"
matches_tag_filter(t) ==
    LET m == MatchVersion(t)
        e == m.end + Len("-slim")
    IN  /\ ~StartsWith(t, "v")
        /\ m.matched
        /\ e - 1 <= Len(t)
        /\ SubSeq(t, m.end, e - 1) = "-slim"
        /\ \/ e = Len(t) + 1
           \/ e = Len(t) /\ Ch(t, e) = "\n"

\* one part of _version_key: int(part), 0 when int raises ValueError (parts
\* that are digit runs convert; signs, blanks and underscores are not drawn)
version_part_int(part) ==
    IF part # "" /\ SpanEnd(part, 1, Digits) = Len(part) + 1 THEN ToInt(part) ELSE 0

\* DockerImageChecker._version_key
checker_version_key(version) ==
    LET parts == Split(Split(version, "-")[1], ".")
    IN  [i \in 1..Len(parts) |-> version_part_int(parts[i])]

\* the last element of filtered_tags after the stable sort by _version_key
last_of_sorted(filtered_tags) ==
    IF Len(filtered_tags) = 0 THEN None
    ELSE Some(filtered_tags[
             Max({i \in 1..Len(filtered_tags) :
                     \A j \in 1..Len(filtered_tags) :
                         ~SeqLess(checker_version_key(filtered_tags[i]),
                                  checker_version_key(filtered_tags[j]))})])

\* DockerImageChecker._filter_and_sort_tags with sort_method "-V": the last
\* element of the stable sort by _version_key, None when nothing passes
filter_and_sort_tags(names) == last_of_sorted(SelectSeq(names, matches_tag_filter))

\* kinds of exchange of _fetch_docker_tags with Docker Hub
HubKinds == {"ok", "url_error", "json_error", "no_results", "malformed"}

\* DockerImageChecker._fetch_docker_tags: the list of tag names, None for the
\* failures it handles; an entry without 'name' raises KeyError
fetch_docker_tags(response) ==
    IF response.kind = "ok" THEN [raised |-> FALSE, value |-> Some(response.names)]
    ELSE IF response.kind = "malformed" THEN [raised |-> TRUE, value |-> None]
    ELSE [raised |-> FALSE, value |-> None]

\* check_image_update, lines 179-207: the comparison of the versions
compare_versions(latest_tag, current_version) ==
    IF latest_tag = None \/ latest_tag[1] = "" THEN FALSE
    ELSE IF current_version = None \/ current_version[1] = "" THEN FALSE
    ELSE current_version # latest_tag

\* check_image_update with what _fetch_docker_tags returned or raised
check_fetched(fetched, file, image_name) ==
    IF fetched.raised THEN [raised |-> TRUE, value |-> FALSE]
    ELSE IF fetched.value = None \/ fetched.value[1] = << >>
    THEN [raised |-> FALSE, value |-> FALSE]
    ELSE [raised |-> FALSE,
          value |-> compare_versions(filter_and_sort_tags(fetched.value[1]),
                                     get_current_image_version(file, image_name))]

\* DockerImageChecker.check_image_update
check_image_update(file, image_name, response) ==
    check_fetched(fetch_docker_tags(response), file, image_name)

\* check_all_updates: an exception of one image is logged and skipped
counts_as_update(r) == ~r.raised /\ r.value

\* DockerImageChecker.check_all_updates: the loop over IMAGE_CONFIGS[i..]
RECURSIVE check_all_from(_, _, _)
check_all_from(i, file, response) ==
    IF i > Len(IMAGE_CONFIGS) THEN FALSE
    ELSE \/ counts_as_update(check_image_update(file, IMAGE_CONFIGS[i], response))
         \/ check_all_from(i + 1, file, response)

check_all_updates(file, response) == check_all_from(1, file, response)

\* main of docker_image_checker.py, lines 280-287
checker_exit(updates_needed, env) ==
    [status |-> IF updates_needed THEN 0 ELSE 1,
     env |-> [env EXCEPT !.UPDATES_NEEDED = IF updates_needed THEN "true" ELSE "false"]]

\* main of docker_image_checker.py: exit status and the UPDATES_NEEDED it
\* writes to updates.env (unchanged when the configuration is rejected)
checker_main(input, file, env) ==
    IF ~input.config_valid THEN [status |-> 1, env |-> env]
    ELSE checker_exit(check_all_updates(file, input.hub), env)

\* update_all_images, lines 209-217: the outcome of update_image_version for
\* one image joined to that of the images after it
with_update(image_ref, u, rest) ==
    IF u.result
    THEN [rest EXCEPT !.updated_images = << image_ref >> \o @]
    ELSE [rest EXCEPT !.success = FALSE]

failed(rest) == [rest EXCEPT !.success = FALSE]

RECURSIVE update_all_from(_, _, _, _)

\* update_all_images, the body of the loop once update_image_version returned
update_one(i, image_name, latest_tag, u, response, write_ok) ==
    with_update(image_name \o ":" \o latest_tag, u,
                update_all_from(i + 1, u.file, response, write_ok))

\* update_all_images, the body of the loop once the latest tag is known
update_to(i, file, latest_tag, response, write_ok) ==
    IF latest_tag = None \/ latest_tag[1] = ""
    THEN update_all_from(i + 1, file, response, write_ok)
    ELSE update_one(i, IMAGE_CONFIGS[i], latest_tag[1],
                    update_image_version(file, IMAGE_CONFIGS[i], latest_tag[1], write_ok),
                    response, write_ok)

\* update_all_images, the body of the loop once _fetch_docker_tags returned
update_fetched(i, file, fetched, response, write_ok) ==
    IF fetched.raised THEN failed(update_all_from(i + 1, file, response, write_ok))
    ELSE IF fetched.value = None \/ fetched.value[1] = << >>
    THEN update_all_from(i + 1, file, response, write_ok)
    ELSE update_to(i, file, filter_and_sort_tags(fetched.value[1]), response, write_ok)

\* DockerfileUpdater.update_all_images, the loop over IMAGE_CONFIGS[i..]:
\* overall_success, updated_images and the file it leaves
update_all_from(i, file, response, write_ok) ==
    IF i > Len(IMAGE_CONFIGS)
    THEN [success |-> TRUE, updated_images |-> << >>, file |-> file]
    ELSE update_fetched(i, file, fetch_docker_tags(response), response, write_ok)

\* DockerfileUpdater.update_all_images
update_all_images(file, response, write_ok) ==
    IF file = None THEN [success |-> FALSE, updated_images |-> << >>, file |-> file]
    ELSE update_all_from(1, file, response, write_ok)

\* EnvironmentManager.get_updates_needed
get_updates_needed(env) == env.UPDATES_NEEDED = "true"

\* main of dockerfile_updater.py, lines 287-305, with the result of
\* update_all_images
updater_exit(r, file, env) ==
    [status |-> IF r.success THEN 0 ELSE 1,
     file |-> r.file,
     updated_images |-> r.updated_images,
     env |-> [env EXCEPT !.CHANGES_MADE =
                             IF r.updated_images # << >> /\ r.file # file
                             THEN "true" ELSE "false"]]

\* main of dockerfile_updater.py: exit status, the file it leaves, the images
\* it updated and the CHANGES_MADE it writes to changes.env
updater_main(input, file, env) ==
    IF ~input.config_valid
    THEN [status |-> 1, file |-> file, updated_images |-> << >>, env |-> env]
    ELSE IF ~get_updates_needed(env)
    THEN [status |-> 0, file |-> file, updated_images |-> << >>, env |-> env]
    ELSE updater_exit(update_all_images(file, input.hub, input.write_ok), file, env)

-----------------------------------------------------------------------------
(* Specification of the lab-11 jobs: the check job, then the update job, on *)
(* one working copy                                                         *)

\* the Dockerfile of the working copy
JobFiles ==
    {None, Some(""), Some("FROM python:3.9-slim"), Some("FROM python:3.12-slim"),
     Some("FROM node:16"), Some("FROM python:3.9-slim\nFROM python:3.9-slim AS build")}

\* tag names of the Docker Hub listing of the configured image
JobTags == {"3.9-slim", "3.12-slim", "latest"}

HubResponses ==
    {[kind |-> k, names |-> << >>] : k \in HubKinds \ {"ok"}}
        \cup UNION {{[kind |-> "ok", names |-> q] : q \in SeqsOfLen(JobTags, n)} :
                       n \in 0..MaxTags}

InitJobs ==
    /\ dockerfile \in JobFiles
    /\ \E c \in BOOLEAN, w \in BOOLEAN, h \in HubResponses :
          job_input = [config_valid |-> c, write_ok |-> w, hub |-> h]
    /\ \E u \in {"unset", "true", "false"} :
          pipeline_env = [UPDATES_NEEDED |-> u, CHANGES_MADE |-> "unset"]
    /\ exits = << >>
    /\ main_content = "" /\ branch_content = None /\ candidate = None
    /\ pushes = << >> /\ updates = << >>
    /\ ClassifyIdle /\ SelectIdle /\ ParseIdle /\ ScanIdle /\ ConfigIdle
    /\ ManagerIdle /\ PipelineIdle

HasExited(job) == \E i \in 1..Len(exits) : exits[i].job = job

\* what the exit of docker_image_checker.py leaves
CheckerExits(r) ==
    /\ pipeline_env' = r.env
    /\ exits' = Append(exits, [job |-> "checker", status |-> r.status,
                               file |-> dockerfile, updated_images |-> << >>])

\* the script docker_image_checker.py runs to its exit
CheckerMain ==
    /\ ~HasExited("checker") /\ ~HasExited("updater")
    /\ CheckerExits(checker_main(job_input, dockerfile, pipeline_env))
    /\ UNCHANGED <<job_input, rewriteVars, configVars, managerVars, pipelineVars,
                   classifyVars, selectVars, parseVars, scanVars>>

\* what the exit of dockerfile_updater.py leaves
UpdaterExits(r) ==
    /\ pipeline_env' = r.env
    /\ dockerfile' = r.file
    /\ exits' = Append(exits, [job |-> "updater", status |-> r.status,
                               file |-> dockerfile,
                               updated_images |-> r.updated_images])

\* the script dockerfile_updater.py runs to its exit
UpdaterMain ==
    /\ ~HasExited("updater")
    /\ UpdaterExits(updater_main(job_input, dockerfile, pipeline_env))
    /\ UNCHANGED <<job_input, main_content, branch_content, candidate, pushes, updates,
                   configVars, managerVars, pipelineVars,
                   classifyVars, selectVars, parseVars, scanVars>>

NextJobs == CheckerMain \/ UpdaterMain

SpecJobs == InitJobs /\ [][NextJobs]_vars

-----------------------------------------------------------------------------
(* Properties of the lab-11 jobs *)

\* the latest tag of the configured image is not available from Docker Hub
TagsUnavailable ==
    \/ job_input.hub.kind # "ok"
    \/ filter_and_sort_tags(job_input.hub.names) = None

\* the Dockerfile the job started from could not be read
Unreadable(file) == file = None \/ file[1] = ""

\* the image failed in the job of exit record x: its tags were unavailable, it
\* was not found in the Dockerfile, or its rewrite was reported as failed
ImageFailed(x, image_name) ==
    \/ TagsUnavailable
    \/ get_current_image_version(x.file, image_name) = None
    \/ /\ x.job = "updater"
       /\ ~update_image_version(x.file, image_name,
                                filter_and_sort_tags(job_input.hub.names)[1],
                                job_input.write_ok).result

\* C18: with a valid configuration a job exits non-zero only if every image
\* failed or the Dockerfile could not be read; a run in which every image is
\* already up to date exits zero.
C18_ExitStatus ==
    \A i \in 1..Len(exits) :
        (job_input.config_valid /\ exits[i].status # 0) =>
            \/ Unreadable(exits[i].file)
            \/ \A k \in 1..Len(IMAGE_CONFIGS) : ImageFailed(exits[i], IMAGE_CONFIGS[k])

-----------------------------------------------------------------------------
(* ConfigManager (enhanced_evergreen_scheduler.py): a configuration is a    *)
(* function from dotted paths to typed values                               *)

StrValue(v) == [type |-> "str", v |-> v]
IntValue(v) == [type |-> "int", v |-> v]
BoolValue(v) == [type |-> "bool", v |-> v]

\* ConfigManager._get_default_config, the scalar entries
default_config ==
    [p \in {"gitlab.url", "gitlab.access_token", "gitlab.project_path",
            "gitlab.timeout", "gitlab.retries", "scanner.branch_prefix",
            "scheduler.enabled", "scheduler.interval_hours", "scheduler.timezone",
            "webhook.enabled", "webhook.host", "webhook.port", "logging.level"} |->
        CASE p = "gitlab.url" -> StrValue("https://gitlab.com")
          [] p = "gitlab.access_token" -> StrValue("")
          [] p = "gitlab.project_path" -> StrValue("")
          [] p = "gitlab.timeout" -> IntValue("60")
          [] p = "gitlab.retries" -> IntValue("3")
          [] p = "scanner.branch_prefix" -> StrValue("evergreen/")
          [] p = "scheduler.enabled" -> BoolValue("False")
          [] p = "scheduler.interval_hours" -> IntValue("6")
          [] p = "scheduler.timezone" -> StrValue("UTC")
          [] p = "webhook.enabled" -> BoolValue("False")
          [] p = "webhook.host" -> StrValue("0.0.0.0")
          [] p = "webhook.port" -> IntValue("8080")
          [] OTHER -> StrValue("INFO")]

\* env_mappings of _override_with_env, in the order of the dict
env_mappings ==
    << << "GITLAB_URL", "gitlab.url" >>,
       << "GITLAB_ACCESS_TOKEN", "gitlab.access_token" >>,
       << "GITLAB_PROJECT_PATH", "gitlab.project_path" >>,
       << "SCANNER_BRANCH_PREFIX", "scanner.branch_prefix" >>,
       << "SCHEDULER_ENABLED", "scheduler.enabled" >>,
       << "SCHEDULER_INTERVAL_HOURS", "scheduler.interval_hours" >>,
       << "WEBHOOK_ENABLED", "webhook.enabled" >>,
       << "WEBHOOK_PORT", "webhook.port" >>,
       << "LOG_LEVEL", "logging.level" >> >>

\* str(n) for n >= 0
RECURSIVE IntToStr(_)
IntToStr(n) ==
    IF n < 10 THEN Ch("0123456789", n + 1)
    ELSE IntToStr(n \div 10) \o Ch("0123456789", (n % 10) + 1)

\* int(value) succeeds (values are digit runs or text without digits; signs,
\* blanks and underscores are not drawn)
int_accepts(value) == value # "" /\ SpanEnd(value, 1, Digits) = Len(value) + 1

\* ConfigManager.get_nested_value(path): None when a key is missing
get_nested_value(cfg, path) == IF path \in DOMAIN cfg THEN Some(cfg[path]) ELSE None

\* the value _set_nested_value stores: converted to the type of the value it
\* replaces
converted(old, value) ==
    IF old # None /\ old[1].type = "bool"
    THEN BoolValue(IF Lower(value) \in {"true", "1", "yes", "on"} THEN "True" ELSE "False")
    ELSE IF old # None /\ old[1].type = "int"
    THEN IntValue(IntToStr(ToInt(value)))
    ELSE StrValue(value)

\* ConfigManager._set_nested_value: the configuration, or ValueError of int()
set_nested_value(cfg, path, value) ==
    IF path \in DOMAIN cfg /\ cfg[path].type = "int" /\ ~int_accepts(value)
    THEN [error |-> "ValueError", config |-> cfg]
    ELSE [error |-> "none",
          config |-> [p \in DOMAIN cfg \cup {path} |->
                         IF p = path THEN converted(get_nested_value(cfg, path), value)
                         ELSE cfg[p]]]

RECURSIVE override_from(_, _, _)

\* _override_with_env, the loop once the value of variable i was stored
override_next(i, r, env) ==
    IF r.error # "none" THEN r ELSE override_from(i + 1, r.config, env)

\* ConfigManager._override_with_env, the loop over env_mappings[i..]
override_from(i, cfg, env) ==
    IF i > Len(env_mappings) THEN [error |-> "none", config |-> cfg]
    ELSE IF env[env_mappings[i][1]] = "" THEN override_from(i + 1, cfg, env)
    ELSE override_next(i, set_nested_value(cfg, env_mappings[i][2],
                                           env[env_mappings[i][1]]), env)

\* "not value" of _validate_config for the value at path
is_falsy(found) ==
    \/ found = None
    \/ found[1] \in {StrValue(""), IntValue("0"), BoolValue("False")}

\* ConfigManager._validate_config: the ValueError it raises, if any
validate_config(r) ==
    IF r.error # "none" THEN r
    ELSE IF is_falsy(get_nested_value(r.config, "gitlab.access_token"))
            \/ is_falsy(get_nested_value(r.config, "gitlab.project_path"))
    THEN [error |-> "ValueError", config |-> r.config]
    ELSE r

\* the configuration load_config starts from: yaml.safe_load(f) or {} of an
\* existing file, the defaults for a missing or unreadable one
loaded(file) ==
    IF file.kind = "mapping" THEN file.content
    ELSE IF file.kind = "empty" THEN << >>
    ELSE default_config

\* ConfigManager.load_config, as the constructor runs it
load_config(file, env) == validate_config(override_from(1, loaded(file), env))

\* ConfigManager.get(*path)
get(cfg, path) == get_nested_value(cfg, path)

-----------------------------------------------------------------------------
(* Constructing a ConfigManager from a configuration file and os.environ    *)

\* the settings the YAML files drawn may define
FileSettings ==
    {"gitlab.url", "gitlab.access_token", "gitlab.project_path",
     "scheduler.enabled", "scheduler.interval_hours"}

\* the access tokens the YAML files drawn may define
FileTokens == {"default_token", ""}

\* the value a YAML file drawn gives to setting p
FileValue(p, token) ==
    CASE p = "gitlab.url" -> StrValue("https://default.gitlab.com")
      [] p = "gitlab.access_token" -> StrValue(token)
      [] p = "gitlab.project_path" -> StrValue("test/project")
      [] p = "scheduler.enabled" -> BoolValue("True")
      [] OTHER -> IntValue("12")

\* the values os.getenv returns, "" for a variable that is not set
EnvValues ==
    [e \in {env_mappings[i][1] : i \in 1..Len(env_mappings)} |->
        CASE e = "GITLAB_URL" -> {"", "https://override.gitlab.com"}
          [] e = "GITLAB_ACCESS_TOKEN" -> {"", "env_token"}
          [] e = "GITLAB_PROJECT_PATH" -> {"", "group/project"}
          [] e = "SCANNER_BRANCH_PREFIX" -> {"", "bot/"}
          [] e = "SCHEDULER_ENABLED" -> {"", "Yes", "off"}
          [] e = "SCHEDULER_INTERVAL_HOURS" -> {"", "24", "soon"}
          [] e = "LOG_LEVEL" -> {"", "DEBUG"}
          [] OTHER -> {""}]

\* os.environ restricted to the mapped variables
Environ(url, token, path, prefix, enabled, hours, level) ==
    [e \in DOMAIN EnvValues |->
        CASE e = "GITLAB_URL" -> url
          [] e = "GITLAB_ACCESS_TOKEN" -> token
          [] e = "GITLAB_PROJECT_PATH" -> path
          [] e = "SCANNER_BRANCH_PREFIX" -> prefix
          [] e = "SCHEDULER_ENABLED" -> enabled
          [] e = "SCHEDULER_INTERVAL_HOURS" -> hours
          [] e = "LOG_LEVEL" -> level
          [] OTHER -> ""]

InitConfig ==
    /\ ClassifyIdle /\ SelectIdle /\ ParseIdle /\ ScanIdle
    /\ RewriteIdle /\ JobIdle /\ ManagerIdle /\ PipelineIdle
    /\ \/ \E kind \in {"missing", "broken", "empty"} : config_file = [kind |-> kind]
       \/ \E defined \in SUBSET FileSettings, token \in FileTokens :
              config_file = [kind |-> "mapping",
                             content |-> [p \in defined |-> FileValue(p, token)]]
    /\ \E url \in EnvValues["GITLAB_URL"], token \in EnvValues["GITLAB_ACCESS_TOKEN"],
          path \in EnvValues["GITLAB_PROJECT_PATH"],
          prefix \in EnvValues["SCANNER_BRANCH_PREFIX"],
          enabled \in EnvValues["SCHEDULER_ENABLED"],
          hours \in EnvValues["SCHEDULER_INTERVAL_HOURS"],
          level \in EnvValues["LOG_LEVEL"] :
              environ = Environ(url, token, path, prefix, enabled, hours, level)
    /\ config = None
    /\ config_error = "none"

\* the ConfigManager once load_config returned r, or the error it raised
Constructed(r) ==
    /\ config' = IF r.error = "none" THEN Some(r.config) ELSE None
    /\ config_error' = r.error

\* ConfigManager.__init__(config_path)
ConfigManagerInit ==
    /\ config = None
    /\ config_error = "none"
    /\ Constructed(load_config(config_file, environ))
    /\ UNCHANGED << config_file, environ >>
    /\ UNCHANGED << classifyVars, selectVars, parseVars, scanVars, rewriteVars, jobVars,
                    managerVars, pipelineVars >>

NextConfig == ConfigManagerInit

SpecConfig == InitConfig /\ [][NextConfig]_vars

\* the constructor has run: it returned or it raised
ConstructorRan == config # None \/ config_error # "none"

\* no mapped environment variable is set
NoEnvironment == \A e \in DOMAIN environ : environ[e] = ""

\* the paths whose mapped environment variable is set
Overridden ==
    {env_mappings[i][2] : i \in {j \in 1..Len(env_mappings) : environ[env_mappings[j][1]] # ""}}

\* C19: constructing ConfigManager for a file that does not exist, with no
\* mapped environment variable set, succeeds, and get('gitlab','url') is
\* 'https://gitlab.com' and get('scanner','branch_prefix') is 'evergreen/'
C19_MissingFileFallsBackToDefaults ==
    (config_file.kind = "missing" /\ NoEnvironment /\ ConstructorRan) =>
        /\ config_error = "none"
        /\ config # None
        /\ get(config[1], "gitlab.url") = Some(StrValue("https://gitlab.com"))
        /\ get(config[1], "scanner.branch_prefix") = Some(StrValue("evergreen/"))

\* C20: for a YAML file that defines gitlab.url and gitlab.access_token, with
\* GITLAB_URL set, constructing ConfigManager succeeds, get('gitlab','url') is
\* the environment value, and every value of the file whose variable is not
\* set keeps the file's value
C20_EnvironmentOverride ==
    (/\ config_file.kind = "mapping"
     /\ {"gitlab.url", "gitlab.access_token"} \subseteq DOMAIN config_file.content
     /\ environ["GITLAB_URL"] # ""
     /\ ConstructorRan) =>
        /\ config_error = "none"
        /\ config # None
        /\ get(config[1], "gitlab.url") = Some(StrValue(environ["GITLAB_URL"]))
        /\ \A p \in DOMAIN config_file.content \ Overridden :
               get(config[1], p) = Some(config_file.content[p])

-----------------------------------------------------------------------------
(* Properties of the candidates of the scan: direction and variant *)

\* the candidates the scan has built so far
ScanCandidates == Range(update_candidates) \cup Range(file_candidates)

\* the variant suffix of a tag: the text from the first hyphen on, "" if none
VariantSuffix(t) ==
    IF Find(t, "-") = 0 THEN "" ELSE SubSeq(t, Find(t, "-"), Len(t))

\* C24: no downgrade.  For every candidate of the scan whose current tag is a
\* semantic version, the (major, minor, patch) tuple of the latest tag is not
\* less than that of the current tag, whatever tag list the registry returned.
C24_NoDowngrade ==
    \A c \in ScanCandidates :
        (is_semantic_version(c.current_image.tag)
            /\ is_semantic_version(c.latest_image.tag))
            => ~TupleLess(TupleOfTag(c.latest_image.tag),
                          TupleOfTag(c.current_image.tag))

\* C25: variant preservation.  For every candidate of the scan whose current
\* tag carries a variant suffix, the latest tag carries the same suffix.
C25_VariantPreserved ==
    \A c \in ScanCandidates :
        VariantSuffix(c.current_image.tag) # ""
            => VariantSuffix(c.latest_image.tag) = VariantSuffix(c.current_image.tag)

-----------------------------------------------------------------------------
(* Frame of the rewrite *)

\* the image reference of a FROM line: the text after FROM up to the next
\* blank; "" for a line that is no FROM instruction
ReferenceOf(line) ==
    IF StartsWith(Upper(LStrip(line)), "FROM ")
    THEN Split(LStrip(SubSeq(LStrip(line), 6, Len(LStrip(line)))) \o " ", " ")[1]
    ELSE ""

\* every line of was that is not a FROM line with the reference old is the
\* same line in now
OtherLinesKept(was, now, old) ==
    /\ Len(now) = Len(was)
    /\ \A j \in 1..Len(was) : ReferenceOf(was[j]) # old => now[j] = was[j]

\* C26: a rewrite for (name, oldTag -> newTag) changes only the FROM lines
\* whose reference is exactly name:oldTag; every other line, a FROM line whose
\* tag merely begins with oldTag included, is unchanged.  Stated of the latest
\* application, as C14.
C26_RewriteFrame ==
    /\ \A i \in {Len(pushes)} \ {0} :
          FirstApplication(pushes[i]) =>
              OtherLinesKept(Split(pushes[i].before, "\n"),
                             Split(pushes[i].after[1], "\n"),
                             image_str(candidate[1].current_image))
    /\ \A i \in {Len(updates)} \ {0} :
          Rewrote(updates[i]) =>
              OtherLinesKept(Split(updates[i].before[1], "\n"),
                             Split(updates[i].after[1], "\n"),
                             updates[i].image_name \o ":"
                                 \o get_current_image_version(updates[i].before,
                                                              updates[i].image_name)[1])

-----------------------------------------------------------------------------
(* EnhancedEvergreenScannerManager (enhanced_evergreen_scheduler.py): scans  *)
(* started by the scheduler and by the webhook, each in a thread of its own, *)
(* over one scanner, one remote project and one scan_history                 *)

\* dataclass ScanResult (timestamp, project_path and duration_seconds are
\* left out)
ScanResult(scan_id, updates_found, created, errors, success) ==
    [scan_id |-> scan_id, updates_found |-> updates_found,
     merge_requests_created |-> created, errors |-> errors, success |-> success]

\* f"scheduled_{int(time.time())}" and f"manual_{int(time.time())}"
scan_id_at(kind, time) == kind \o "_" \o IntToStr(time)

\* the length record_scan_result keeps the history at
HistoryLimit == 100

\* history[:100]: the oldest results
first_results(history) ==
    IF Len(history) > HistoryLimit THEN SubSeq(history, 1, HistoryLimit) ELSE history

\* self.scan_history[-100:]
last_results(history) ==
    IF Len(history) > HistoryLimit
    THEN SubSeq(history, Len(history) - HistoryLimit + 1, Len(history))
    ELSE history

\* scanner.branch_prefix, the default of the configuration
BranchPrefix == "evergreen/"

\* a branch name that also names the Dockerfile of the candidate
branch_name_per_file(prefix, cand) ==
    prefix \o Replace(cand.current_image.name, "/", "-") \o "-" \o cand.latest_image.tag
        \o "-" \o Replace(cand.dockerfile_path, "/", "-")

\* branch_name of create_update_branch_and_mr
branch_name(prefix, cand) ==
    prefix \o Replace(cand.current_image.name, "/", "-") \o "-" \o cand.latest_image.tag

\* the threads that run run_scheduled_scan: the job of the scheduler and the
\* thread trigger_manual_scan starts
Threads == {"scheduled", "manual"}

\* a thread that runs no scan; failed is the set of the steps of the scan
\* ("get", "create", "update", "mr") that ended with an exception
NoScan ==
    [pc |-> "idle", scan_id |-> "", i |-> 0, success_count |-> 0, errors |-> << >>,
     failed |-> {}, result |-> None, tail |-> << >>]

\* candidates a scan of the project finds: the same image in two Dockerfiles,
\* and an image with a namespace
PythonRoot ==
    UpdateCandidate(DockerImage("python", "3.9", None),
                    DockerImage("python", "3.12", None), "Dockerfile", 1)
PythonApp ==
    UpdateCandidate(DockerImage("python", "3.9", None),
                    DockerImage("python", "3.12", None), "docker/app.dockerfile", 1)
RedisRoot ==
    UpdateCandidate(DockerImage("bitnami/redis", "7.0", None),
                    DockerImage("bitnami/redis", "7.2", None), "Dockerfile", 2)

CandidateLists == {<< >>, << RedisRoot >>, << PythonRoot, PythonApp >>}

\* the results of n earlier scans that found nothing
RECURSIVE OldResults(_)
OldResults(n) ==
    IF n = 0 THEN << >>
    ELSE Append(OldResults(n - 1),
                ScanResult(scan_id_at("scheduled", n), 0, 0, << >>, TRUE))

\* lengths of the history when the scans of the model start
Preloads == {0, HistoryLimit}

InitManager ==
    /\ ClassifyIdle /\ SelectIdle /\ ParseIdle /\ ScanIdle
    /\ RewriteIdle /\ JobIdle /\ ConfigIdle /\ PipelineIdle
    /\ project_candidates \in CandidateLists
    /\ remote_branches = {}
    /\ commits = << >>
    /\ merge_requests = << >>
    /\ clock = HistoryLimit + 1
    /\ started = 0
    /\ scans = [t \in Threads |-> NoScan]
    /\ manual_ids = << >>
    /\ \E n \in Preloads :
          /\ scan_history = OldResults(n)
          /\ recorded = OldResults(n)
          /\ last_scan_result = IF n = 0 THEN None ELSE Some(OldResults(n)[n])

\* time passes
Tick ==
    /\ clock < HistoryLimit + 1 + MaxTicks
    /\ clock' = clock + 1
    /\ UNCHANGED <<project_candidates, remote_branches, commits, merge_requests,
                   started, scans, manual_ids, last_scan_result, scan_history, recorded>>
    /\ UNCHANGED <<classifyVars, selectVars, parseVars, scanVars, rewriteVars, jobVars,
                   configVars, pipelineVars>>

\* thread t goes on with the locals th; the rest of the manager is as given
Continue(t, th) ==
    /\ scans' = [scans EXCEPT ![t] = th]
    /\ UNCHANGED <<project_candidates, clock>>
    /\ UNCHANGED <<classifyVars, selectVars, parseVars, scanVars, rewriteVars, jobVars,
                   configVars, pipelineVars>>

\* the scheduler runs its job run_scheduled_scan (one instance at a time)
StartScheduledScan ==
    /\ scans["scheduled"].pc = "idle"
    /\ started < MaxScans
    /\ started' = started + 1
    /\ Continue("scheduled", [NoScan EXCEPT !.pc = "begin"])
    /\ UNCHANGED <<remote_branches, commits, merge_requests, manual_ids,
                   last_scan_result, scan_history, recorded>>

\* trigger_manual_scan: a thread is started on run_scheduled_scan and the scan
\* id manual_<time> is returned to the webhook caller
TriggerManualScan ==
    /\ scans["manual"].pc = "idle"
    /\ started < MaxScans
    /\ started' = started + 1
    /\ manual_ids' = Append(manual_ids, scan_id_at("manual", clock))
    /\ Continue("manual", [NoScan EXCEPT !.pc = "begin"])
    /\ UNCHANGED <<remote_branches, commits, merge_requests,
                   last_scan_result, scan_history, recorded>>

\* the locals of a thread once create_update_branch_and_mr has returned for
\* candidate i: True counts, the step whose exception the function caught is
\* remembered
Returned(th, created, raised) ==
    [th EXCEPT !.i = th.i + 1,
               !.success_count = th.success_count + created,
               !.failed = th.failed \cup raised,
               !.pc = IF th.i + 1 > Len(project_candidates) THEN "result" ELSE "get"]

\* run_scheduled_scan, lines 405-413: the scan id is built and
\* scan_dockerfiles returns the candidates of the project
ScanDockerfiles(t) ==
    /\ scans[t].pc = "begin"
    /\ Continue(t, [scans[t] EXCEPT !.scan_id = scan_id_at("scheduled", clock),
                                    !.i = 1,
                                    !.pc = IF project_candidates = << >>
                                           THEN "result" ELSE "get"])
    /\ UNCHANGED <<remote_branches, commits, merge_requests, started, manual_ids,
                   last_scan_result, scan_history, recorded>>

\* create_update_branch_and_mr, lines 328-335: project.branches.get answers
\* (the branch, or GitlabError for a missing one), fails with a GitlabError of
\* another cause, or fails with another exception
BranchesGet(t) ==
    /\ scans[t].pc = "get"
    /\ \E outcome \in {"answered", "gitlab_error", "error"} :
          Continue(t,
              IF outcome = "error" THEN Returned(scans[t], 0, {"get"})
              ELSE IF outcome = "answered"
                      /\ branch_name(BranchPrefix, project_candidates[scans[t].i])
                             \in remote_branches
              THEN Returned(scans[t], 0, {})
              ELSE [scans[t] EXCEPT !.pc = "create"])
    /\ UNCHANGED <<remote_branches, commits, merge_requests, started, manual_ids,
                   last_scan_result, scan_history, recorded>>

\* create_update_branch_and_mr, line 337: project.branches.create; the remote
\* rejects a name that exists, and the request may fail
BranchesCreate(t) ==
    /\ scans[t].pc = "create"
    /\ \E ok \in BOOLEAN :
          IF ok /\ branch_name(BranchPrefix, project_candidates[scans[t].i])
                       \notin remote_branches
          THEN /\ remote_branches' =
                      remote_branches
                          \cup {branch_name(BranchPrefix, project_candidates[scans[t].i])}
               /\ Continue(t, [scans[t] EXCEPT !.pc = "update"])
          ELSE /\ UNCHANGED remote_branches
               /\ Continue(t, Returned(scans[t], 0, {"create"}))
    /\ UNCHANGED <<commits, merge_requests, started, manual_ids,
                   last_scan_result, scan_history, recorded>>

\* create_update_branch_and_mr, line 341: _update_dockerfile saves the file on
\* the branch, or raises
UpdateOnBranch(t) ==
    /\ scans[t].pc = "update"
    /\ \E ok \in BOOLEAN :
          IF ok
          THEN /\ commits' = Append(commits,
                                    branch_name(BranchPrefix,
                                                project_candidates[scans[t].i]))
               /\ Continue(t, [scans[t] EXCEPT !.pc = "mr"])
          ELSE /\ UNCHANGED commits
               /\ Continue(t, Returned(scans[t], 0, {"update"}))
    /\ UNCHANGED <<remote_branches, merge_requests, started, manual_ids,
                   last_scan_result, scan_history, recorded>>

\* create_update_branch_and_mr, lines 366-375: project.mergerequests.create
MergeRequestsCreate(t) ==
    /\ scans[t].pc = "mr"
    /\ \E ok \in BOOLEAN :
          IF ok
          THEN /\ merge_requests' =
                      Append(merge_requests,
                             [source_branch |-> branch_name(BranchPrefix,
                                                            project_candidates[scans[t].i]),
                              candidate |-> project_candidates[scans[t].i]])
               /\ Continue(t, Returned(scans[t], 1, {}))
          ELSE /\ UNCHANGED merge_requests
               /\ Continue(t, Returned(scans[t], 0, {"mr"}))
    /\ UNCHANGED <<remote_branches, commits, started, manual_ids,
                   last_scan_result, scan_history, recorded>>

\* the ScanResult run_scheduled_scan builds, lines 426-435
result_of(th) ==
    ScanResult(th.scan_id, Len(project_candidates), th.success_count, th.errors,
               Len(th.errors) = 0)

\* run_scheduled_scan, lines 424-437, and record_scan_result, line 477:
\* the result is built and stored in last_scan_result
RecordLast(t) ==
    /\ scans[t].pc = "result"
    /\ last_scan_result' = Some(result_of(scans[t]))
    /\ recorded' = Append(recorded, result_of(scans[t]))
    /\ Continue(t, [scans[t] EXCEPT !.result = Some(result_of(scans[t])),
                                    !.pc = "append"])
    /\ UNCHANGED <<remote_branches, commits, merge_requests, started, manual_ids,
                   scan_history>>

\* record_scan_result, line 478: self.scan_history.append(result)
RecordAppend(t) ==
    /\ scans[t].pc = "append"
    /\ scan_history' = Append(scan_history, scans[t].result[1])
    /\ Continue(t, [scans[t] EXCEPT !.pc = "test"])
    /\ UNCHANGED <<remote_branches, commits, merge_requests, started, manual_ids,
                   last_scan_result, recorded>>

\* record_scan_result, line 481: if len(self.scan_history) > 100
RecordTest(t) ==
    /\ scans[t].pc = "test"
    /\ Continue(t, IF Len(scan_history) > HistoryLimit
                   THEN [scans[t] EXCEPT !.pc = "slice"]
                   ELSE NoScan)
    /\ UNCHANGED <<remote_branches, commits, merge_requests, started, manual_ids,
                   last_scan_result, scan_history, recorded>>

\* record_scan_result, line 482, right-hand side: self.scan_history[-100:]
RecordSlice(t) ==
    /\ scans[t].pc = "slice"
    /\ Continue(t, [scans[t] EXCEPT !.tail = last_results(scan_history),
                                    !.pc = "assign"])
    /\ UNCHANGED <<remote_branches, commits, merge_requests, started, manual_ids,
                   last_scan_result, scan_history, recorded>>

\* record_scan_result, line 482, the assignment to self.scan_history
RecordAssign(t) ==
    /\ scans[t].pc = "assign"
    /\ scan_history' = scans[t].tail
    /\ Continue(t, NoScan)
    /\ UNCHANGED <<remote_branches, commits, merge_requests, started, manual_ids,
                   last_scan_result, recorded>>

\* one step of run_scheduled_scan in thread t
ScanStep(t) ==
    \/ ScanDockerfiles(t)
    \/ BranchesGet(t)
    \/ BranchesCreate(t)
    \/ UpdateOnBranch(t)
    \/ MergeRequestsCreate(t)
    \/ RecordLast(t)
    \/ RecordAppend(t)
    \/ RecordTest(t)
    \/ RecordSlice(t)
    \/ RecordAssign(t)

\* the scheduler alone: the scans run one after the other
NextScheduled ==
    \/ Tick
    \/ StartScheduledScan
    \/ \E t \in Threads : ScanStep(t)

SpecScheduled == InitManager /\ [][NextScheduled]_vars

\* scheduler and webhook: a scheduled and a manual scan may run interleaved
NextManager ==
    \/ Tick
    \/ StartScheduledScan
    \/ TriggerManualScan
    \/ \E t \in Threads : ScanStep(t)

SpecManager == InitManager /\ [][NextManager]_vars

\* the webhook alone: manual scans, one after the other
NextManual ==
    \/ Tick
    \/ TriggerManualScan
    \/ \E t \in Threads : ScanStep(t)

SpecManual == InitManager /\ [][NextManual]_vars

\* a started thread runs run_scheduled_scan to its end
SpecManualFair == SpecManual /\ \A t \in Threads : WF_vars(ScanStep(t))

-----------------------------------------------------------------------------
(* Properties of the scans                                                   *)

\* the branch of the candidate thread t works on
BranchOf(t) == branch_name(BranchPrefix, project_candidates[scans[t].i])

\* a merge request for the branch is open
HasMergeRequest(branch) ==
    \E k \in 1..Len(merge_requests) : merge_requests[k].source_branch = branch

\* the pair (image name, latest tag) of a merge request
UpdateOf(mr) == <<mr.candidate.current_image.name, mr.candidate.latest_image.tag>>

\* the call of thread t finds the branch of its candidate on the remote
FindsBranch(t) ==
    /\ scans[t].pc \in {"get", "create"}
    /\ BranchOf(t) \in remote_branches

\* the step changes nothing on the remote and does not count a merge request
NoOpStep(t) ==
    /\ remote_branches' = remote_branches
    /\ commits' = commits
    /\ merge_requests' = merge_requests
    /\ scans'[t].success_count = scans[t].success_count
    /\ scans'[t].pc \in {"create", "get", "result"}

\* C21: when the branch evergreen/<name with - for />-<latest tag> exists,
\* create_update_branch_and_mr creates no branch, writes no file, opens no
\* merge request and returns False; over sequential scans no two merge
\* requests are opened for the same (image name, latest tag).
C21_ExistingBranchIsNoOp ==
    /\ [](\A k, m \in 1..Len(merge_requests) :
              UpdateOf(merge_requests[k]) = UpdateOf(merge_requests[m]) => k = m)
    /\ [][\A t \in Threads : FindsBranch(t) => NoOpStep(t)]_vars

\* C21 witness: the second scan of a project has skipped the candidate whose
\* merge request the first scan opened.
C21_Witness ==
    /\ started = 2
    /\ project_candidates = << RedisRoot >>
    /\ merge_requests = << [source_branch |-> "evergreen/bitnami-redis-7.2",
                            candidate |-> RedisRoot] >>
    /\ scans["scheduled"].pc = "result"
    /\ scans["scheduled"].success_count = 0
    /\ scans["scheduled"].failed = {}

\* no thread is inside record_scan_result
NoRecordInProgress ==
    \A t \in Threads : scans[t].pc \notin {"append", "test", "slice", "assign"}

\* the results of the n most recent calls of record_scan_result, oldest first
MostRecent(n) ==
    [k \in 1..(IF Len(recorded) < n THEN Len(recorded) ELSE n) |->
        recorded[Len(recorded) - (IF Len(recorded) < n THEN Len(recorded) ELSE n) + k]]

\* C22: after any sequence of record_scan_result calls scan_history has at
\* most 100 entries, which are the most recently recorded results in the
\* order of recording, and last_scan_result is the last of them (None when
\* nothing was recorded).
C22_HistoryBounded ==
    NoRecordInProgress =>
        /\ Len(scan_history) <= HistoryLimit
        /\ scan_history = MostRecent(HistoryLimit)
        /\ last_scan_result =
               IF recorded = << >> THEN None ELSE Some(scan_history[Len(scan_history)])

\* C22 witness: a result was recorded into a full history and the oldest
\* entry was dropped.
C22_Witness ==
    /\ NoRecordInProgress
    /\ Len(recorded) > HistoryLimit
    /\ Len(scan_history) = HistoryLimit
    /\ scan_history[1].scan_id = scan_id_at("scheduled", 2)

\* C27: a failure after the branch was created does not keep the merge
\* request from being opened: a scan in which no step failed leaves a merge
\* request for the branch of every candidate it found.
C27_RetryAfterFailure ==
    \A t \in Threads :
        (scans[t].pc = "append" /\ scans[t].failed = {}) =>
            \A k \in 1..Len(project_candidates) :
                HasMergeRequest(branch_name(BranchPrefix, project_candidates[k]))

\* the scan ids trigger_manual_scan can return
ManualIds ==
    {scan_id_at("manual", time) : time \in (HistoryLimit + 1)..(HistoryLimit + 1 + MaxTicks)}

\* C28: every scan started by trigger_manual_scan eventually records a
\* ScanResult whose scan_id is the id trigger_manual_scan returned.
C28_ManualScanRecorded ==
    \A id \in ManualIds :
        (\E k \in 1..Len(manual_ids) : manual_ids[k] = id)
            ~> (\E k \in 1..Len(scan_history) : scan_history[k].scan_id = id)

\* C29: a scan in which creating the branch, updating the Dockerfile or
\* opening the merge request failed records success = False and a non-empty
\* errors list, and no result counts more merge requests than updates.
C29_FailureReported ==
    \A t \in Threads :
        scans[t].pc = "append" =>
            /\ (scans[t].failed \cap {"create", "update", "mr"} # {} =>
                    /\ ~scans[t].result[1].success
                    /\ scans[t].result[1].errors # << >>)
            /\ scans[t].result[1].merge_requests_created
                   <= scans[t].result[1].updates_found

\* C30: when a scheduled and a manual scan have run interleaved over the same
\* candidates, no branch has two merge requests and the results of both scans
\* are in scan_history.
C30_ConcurrentScans ==
    (/\ started = 2
     /\ Len(manual_ids) = 1
     /\ project_candidates # << >>
     /\ \A t \in Threads : scans[t].pc = "idle") =>
        /\ \A k, m \in 1..Len(merge_requests) :
               merge_requests[k].source_branch = merge_requests[m].source_branch => k = m
        /\ \A k \in (Len(recorded) - 1)..Len(recorded) :
               \E m \in 1..Len(scan_history) : scan_history[m] = recorded[k]

-----------------------------------------------------------------------------
(* The stages of the lab-11 pipeline: docker_image_checker.main, then        *)
(* git_operations.setup_and_update, then                                     *)
(* gitlab_api.create_automated_merge_request. The stages share the           *)
(* variables of the pipeline and the files updates.env, branch.env and       *)
(* changes.env                                                               *)

ArtifactFiles == {"updates.env", "branch.env", "changes.env"}

\* CI_PIPELINE_ID of the pipeline
PipelineId == "42"

\* write_env_file(filename, {key: value}): the text of the file
write_env_file(key, value) == key \o "=" \o value \o "\n"

\* the loop of read_env_file over the lines: variables.get(key) at the end
RECURSIVE read_lines(_, _, _)
read_lines(lines, key, value) ==
    IF lines = << >> THEN value
    ELSE IF /\ Contains(Strip(Head(lines)), "=")
            /\ ~StartsWith(Strip(Head(lines)), "#")
            /\ SubSeq(Strip(Head(lines)), 1, Find(Strip(Head(lines)), "=") - 1) = key
    THEN read_lines(Tail(lines), key,
                    Some(SubSeq(Strip(Head(lines)), Find(Strip(Head(lines)), "=") + 1,
                                Len(Strip(Head(lines))))))
    ELSE read_lines(Tail(lines), key, value)

\* read_env_file(filename).get(key): None for a missing file or key
read_env_file(file, key) ==
    IF file = None THEN None ELSE read_lines(Split(file[1], "\n"), key, None)

\* dict.get(key, default) on the result of read_env_file
get_or(value, default) == IF value = None THEN default ELSE value[1]

\* str(flag).lower()
bool_str(flag) == IF flag THEN "true" ELSE "false"

\* Config.validate: of the required variables, ACCESS_TOKEN is the one the
\* runner does not set by itself
validate(env) == env.ACCESS_TOKEN \notin {None, Some("")}

\* Config.feature_branch
feature_branch(env) ==
    IF env.FEATURE_BRANCH = None
    THEN "feature/update-base-images-" \o PipelineId
    ELSE env.FEATURE_BRANCH[1]

\* get_updates_needed with the file asked before the variable
get_updates_needed_file_first(env, files) ==
    IF read_env_file(files["updates.env"], "UPDATES_NEEDED") # None
    THEN Lower(read_env_file(files["updates.env"], "UPDATES_NEEDED")[1]) = "true"
    ELSE env.UPDATES_NEEDED \notin {None, Some("")}
         /\ Lower(env.UPDATES_NEEDED[1]) = "true"

\* EnvironmentManager.get_updates_needed
get_updates_needed_from(env, files) ==
    IF env.UPDATES_NEEDED \notin {None, Some("")}
    THEN Lower(env.UPDATES_NEEDED[1]) = "true"
    ELSE Lower(get_or(read_env_file(files["updates.env"], "UPDATES_NEEDED"), "false"))
             = "true"

\* EnvironmentManager.get_changes_made
get_changes_made_from(env, files) ==
    IF env.CHANGES_MADE \notin {None, Some("")}
    THEN Lower(env.CHANGES_MADE[1]) = "true"
    ELSE Lower(get_or(read_env_file(files["changes.env"], "CHANGES_MADE"), "false"))
             = "true"

\* EnvironmentManager.get_feature_branch: None for no branch
get_feature_branch_from(env, files) ==
    IF env.FEATURE_BRANCH \notin {None, Some("")}
    THEN env.FEATURE_BRANCH
    ELSE IF get_or(read_env_file(files["branch.env"], "FEATURE_BRANCH"), "") = ""
    THEN None
    ELSE read_env_file(files["branch.env"], "FEATURE_BRANCH")

\* the git commands of setup_and_update up to create_feature_branch, and the
\* ones after it
BranchCommands == << "config", "remote set-url", "fetch", "checkout -b", "push -u" >>
CommitCommands == << "commit", "push" >>

\* run_git_command on the commands in turn until one fails (fails names the
\* failing command, "none" for none): the commands that were run
RECURSIVE run_git_commands(_, _, _)
run_git_commands(commands, branch, fails) ==
    IF commands = << >> THEN << >>
    ELSE << [command |-> Head(commands), branch |-> branch,
             ok |-> Head(commands) # fails] >>
         \o (IF Head(commands) = fails THEN << >>
             ELSE run_git_commands(Tail(commands), branch, fails))

\* every command of the run succeeded
all_ok(run) == \A k \in 1..Len(run) : run[k].ok

\* the exit of a stage: the files it leaves, the git commands it ran, the
\* merge requests it created and its status
StageExit(files, commands, mrs, status) ==
    [files |-> files, commands |-> commands, mrs |-> mrs, status |-> status]

\* docker_image_checker.main; needed is the result of check_all_updates
check_main(env, files, needed) ==
    IF ~validate(env) THEN StageExit(files, << >>, << >>, 1)
    ELSE StageExit([files EXCEPT !["updates.env"] =
                        Some(write_env_file("UPDATES_NEEDED", bool_str(needed)))],
                   << >>, << >>, IF needed THEN 0 ELSE 1)

\* setup_and_update from cleanup_artifact_files on, lines 273-331; git
\* refuses a branch without a name; changes: something was staged; fails: the
\* command or step that raises
update_branch(env, changes, fails) ==
    IF ~all_ok(run_git_commands(BranchCommands, feature_branch(env),
                                IF feature_branch(env) = "" THEN "checkout -b" ELSE fails))
    THEN StageExit([f \in ArtifactFiles |-> None],
                   run_git_commands(BranchCommands, feature_branch(env),
                                    IF feature_branch(env) = "" THEN "checkout -b"
                                    ELSE fails),
                   << >>, 1)
    ELSE IF fails = "add"
    THEN StageExit([f \in ArtifactFiles |->
                        IF f = "branch.env"
                        THEN Some(write_env_file("FEATURE_BRANCH", feature_branch(env)))
                        ELSE None],
                   run_git_commands(BranchCommands \o << "add" >>, feature_branch(env),
                                    fails),
                   << >>, 1)
    ELSE StageExit([f \in ArtifactFiles |->
                        IF f = "branch.env"
                        THEN Some(write_env_file("FEATURE_BRANCH", feature_branch(env)))
                        ELSE IF f = "changes.env"
                        THEN Some(write_env_file("CHANGES_MADE", bool_str(changes)))
                        ELSE None],
                   run_git_commands(BranchCommands \o << "add", "diff --staged" >>
                                        \o (IF changes THEN CommitCommands ELSE << >>),
                                    feature_branch(env), fails),
                   << >>,
                   IF changes /\ fails \in Range(CommitCommands) THEN 1 ELSE 0)

\* git_operations.setup_and_update
setup_and_update(env, files, changes, fails) ==
    IF ~validate(env) THEN StageExit(files, << >>, << >>, 1)
    ELSE IF ~get_updates_needed_from(env, files)
    THEN StageExit([files EXCEPT
                        !["changes.env"] = Some(write_env_file("CHANGES_MADE",
                                                               bool_str(FALSE))),
                        !["branch.env"] = Some(write_env_file("FEATURE_BRANCH", ""))],
                   << >>, << >>, 0)
    ELSE update_branch(env, changes, fails)

\* gitlab_api.create_automated_merge_request; api_ok: the request succeeds
create_automated_merge_request(env, files, api_ok) ==
    IF ~validate(env) THEN StageExit(files, << >>, << >>, 1)
    ELSE IF ~get_changes_made_from(env, files) THEN StageExit(files, << >>, << >>, 0)
    ELSE IF get_feature_branch_from(env, files) = None
    THEN StageExit(files, << >>, << >>, 1)
    ELSE IF api_ok
    THEN StageExit(files, << >>, << get_feature_branch_from(env, files)[1] >>, 0)
    ELSE StageExit(files, << >>, << >>, 1)

\* the variables a pipeline may be started with
PipelineVariables ==
    {[ACCESS_TOKEN |-> token, UPDATES_NEEDED |-> needed, CHANGES_MADE |-> made,
      FEATURE_BRANCH |-> branch] :
        token \in {None, Some("glpat")},
        needed \in {None, Some(""), Some("True"), Some("false")},
        made \in {None, Some("true"), Some("false")},
        branch \in {None, Some(""), Some("feature/images")}}

\* the steps of setup_and_update that may raise
FailingSteps == {"none"} \cup Range(BranchCommands) \cup {"add"} \cup Range(CommitCommands)

InitPipeline ==
    /\ ClassifyIdle /\ SelectIdle /\ ParseIdle /\ ScanIdle
    /\ RewriteIdle /\ JobIdle /\ ConfigIdle /\ ManagerIdle
    /\ ci_variables \in PipelineVariables
    /\ artifacts = [f \in ArtifactFiles |-> None]
    /\ git_commands = << >>
    /\ created_mrs = << >>
    /\ stages = << >>

\* a stage exits: its files are passed on as the artifacts of the pipeline
StageExits(stage, exit) ==
    /\ artifacts' = exit.files
    /\ git_commands' = git_commands \o exit.commands
    /\ created_mrs' = created_mrs \o exit.mrs
    /\ stages' = Append(stages, [stage |-> stage, status |-> exit.status])
    /\ UNCHANGED ci_variables
    /\ UNCHANGED <<classifyVars, selectVars, parseVars, scanVars, rewriteVars, jobVars,
                   configVars, managerVars>>

\* stage 1: docker_image_checker.py
CheckStage ==
    /\ Len(stages) = 0
    /\ \E needed \in BOOLEAN :
          StageExits("check", check_main(ci_variables, artifacts, needed))

\* stage 2: git_operations.py setup-and-update (the later stages run whatever
\* the status of the earlier ones: a job may be allowed to fail)
SetupAndUpdateStage ==
    /\ Len(stages) = 1
    /\ \E changes \in BOOLEAN, fails \in FailingSteps :
          StageExits("setup_and_update",
                     setup_and_update(ci_variables, artifacts, changes, fails))

\* stage 3: gitlab_api.py create-merge-request
CreateMergeRequestStage ==
    /\ Len(stages) = 2
    /\ \E api_ok \in BOOLEAN :
          StageExits("create_merge_request",
                     create_automated_merge_request(ci_variables, artifacts, api_ok))

NextPipeline == CheckStage \/ SetupAndUpdateStage \/ CreateMergeRequestStage

SpecPipeline == InitPipeline /\ [][NextPipeline]_vars

\* the value the pipeline holds for a key: the variable when it is set to
\* something, else what the file records, else nothing
Recorded(key, file) ==
    IF ci_variables[key] # None /\ ci_variables[key] # Some("")
    THEN ci_variables[key][1]
    ELSE IF artifacts[file] = None THEN ""
    ELSE IF StartsWith(artifacts[file][1], key \o "=")
    THEN Strip(SubSeq(artifacts[file][1], Len(key) + 2, Len(artifacts[file][1])))
    ELSE ""

\* the step is the exit of the stage
Exits(stage) ==
    /\ Len(stages') = Len(stages) + 1
    /\ stages'[Len(stages')].stage = stage

\* the step runs a git command that creates a branch
CreatesBranch ==
    \E k \in (Len(git_commands) + 1)..Len(git_commands') :
        git_commands'[k].command \in {"checkout -b", "push -u"}

=============================================================================
